---------------------------- MODULE Spec2Model ----------------------------
(***************************************************************************)
(* A model of subscan's concurrent probing engine:                         *)
(*   scorer.AnalyzeSubdomains  (worker pool over a jobs channel),          *)
(*   probe.RunProbes           (goroutine per host behind a semaphore),    *)
(*   resolver.ResolveSubdomains (50 workers and a progress reporter),      *)
(*   lookupCNAME               (recursive alias-chain resolution),         *)
(*   the initial HTTPS-then-HTTP probe of probeDomain / analyzeSubdomain,  *)
(*   analyzeSubdomain's scoring and sortByScore.                           *)
(* Scores are integer tenths (1.0 is 10).  Host names, bodies and          *)
(* patterns are strings; strings.Contains and strings.TrimSuffix are       *)
(* computed on them.                                                       *)
(***************************************************************************)
EXTENDS Integers, Sequences, FiniteSets, TLC

VARIABLES
    prog,          \* which entry point this run executes
    subdomains,    \* the input list (subdomains / domains)
    Concurrency,   \* options.Concurrency
    mainPc,        \* position of the calling goroutine
    sent,          \* loop index of the dispatch loop (hosts dispatched so far)
    jobs,          \* buffer of the jobs channel
    jobsClosed,    \* close(jobs) has happened
    wg,            \* sync.WaitGroup counter
    wpc,           \* position of each spawned worker / per-host goroutine
    wjob,          \* the host a worker / goroutine is working on
    winfo,         \* the per-host result a worker / goroutine holds
    mu,            \* holder of the mutex (0: unlocked)
    results,       \* the shared result collection
    semaphore,     \* number of tokens in RunProbes' semaphore channel
    resultsChan,   \* buffer of RunProbes' results channel
    chanClosed,    \* close(resultsChan) has happened
    closerPc,      \* position of RunProbes' closing goroutine
    processed,     \* ResolveSubdomains' atomic progress counter
    reporterPc,    \* position of the progress-reporter goroutine
    current,       \* the last value the progress reporter loaded
    ret,           \* the value the entry point returned
    net,           \* the network a single evaluated host sees
    evalOut        \* outcome of the single evaluations (lookupCNAME, probes)

schedVars == <<prog, subdomains, Concurrency, mainPc, sent, jobs, jobsClosed,
               wg, wpc, wjob, winfo, mu, results, semaphore, resultsChan,
               chanClosed, closerPc, processed, reporterPc, current, ret>>
evalVars == <<net, evalOut>>
vars == <<schedVars, evalVars>>

---------------------------------------------------------------------------
(* Bounds of the model. *)

\* longest input list handed to an entry point
MaxHosts == 3
\* largest worker budget (options.Concurrency) tried
MaxConc == 2
\* recursion depth at which the goroutine stack is exhausted
MaxDepth == 6

---------------------------------------------------------------------------
(* Go library functions on strings and slices. *)

Min(a, b) == IF a < b THEN a ELSE b

\* strings.Contains
Contains(s, p) ==
    \E i \in 1..(Len(s) - Len(p) + 1) : SubSeq(s, i, i + Len(p) - 1) = p

\* strings.HasPrefix of the part of s that starts at position i
HasAt(s, i, p) ==
    /\ i >= 1
    /\ i + Len(p) - 1 <= Len(s)
    /\ SubSeq(s, i, i + Len(p) - 1) = p

\* strings.TrimSuffix
TrimSuffix(s, suf) ==
    IF Len(s) >= Len(suf) /\ SubSeq(s, Len(s) - Len(suf) + 1, Len(s)) = suf
    THEN SubSeq(s, 1, Len(s) - Len(suf))
    ELSE s

\* strings.ToUpper, for the ASCII letters
LowerCase == "abcdefghijklmnopqrstuvwxyz"

UpperCase == "ABCDEFGHIJKLMNOPQRSTUVWXYZ"

UpperChar(c) ==
    IF \E i \in 1..26 : SubSeq(LowerCase, i, i) = c
    THEN LET i == CHOOSE k \in 1..26 : SubSeq(LowerCase, k, k) = c
         IN  SubSeq(UpperCase, i, i)
    ELSE c

RECURSIVE ToUpper(_)
ToUpper(s) ==
    IF s = "" THEN ""
    ELSE UpperChar(SubSeq(s, 1, 1)) \o ToUpper(SubSeq(s, 2, Len(s)))

\* strings.ToLower, for the ASCII letters
LowerChar(c) ==
    IF \E i \in 1..26 : SubSeq(UpperCase, i, i) = c
    THEN LET i == CHOOSE k \in 1..26 : SubSeq(UpperCase, k, k) = c
         IN  SubSeq(LowerCase, i, i)
    ELSE c

RECURSIVE ToLower(_)
ToLower(s) ==
    IF s = "" THEN ""
    ELSE LowerChar(SubSeq(s, 1, 1)) \o ToLower(SubSeq(s, 2, Len(s)))

\* strings.TrimSpace, for the blank
RECURSIVE TrimSpace(_)
TrimSpace(s) ==
    IF s = "" THEN ""
    ELSE IF SubSeq(s, 1, 1) = " " THEN TrimSpace(SubSeq(s, 2, Len(s)))
    ELSE IF SubSeq(s, Len(s), Len(s)) = " " THEN TrimSpace(SubSeq(s, 1, Len(s) - 1))
    ELSE s

\* strings.HasPrefix
HasPrefix(s, pre) == Len(s) >= Len(pre) /\ SubSeq(s, 1, Len(pre)) = pre

\* strings.Split(s, sep)[len - 1] for a one-character sep: what follows the
\* last sep of s, or s itself when it has none
LastSegment(s, sep) ==
    LET at == {i \in 1..Len(s) : SubSeq(s, i, i) = sep}
    IN  IF at = {} THEN s
        ELSE LET last == CHOOSE i \in at : \A j \in at : j <= i
             IN  SubSeq(s, last + 1, Len(s))

\* the sequences that list every element of the finite set S exactly once
RECURSIVE Perms(_)
Perms(S) ==
    IF S = {} THEN {<<>>}
    ELSE UNION {{<<x>> \o p : p \in Perms(S \ {x})} : x \in S}

\* the sequences without repetition over S of length at most n
RECURSIVE Lists(_, _)
Lists(S, n) ==
    IF n = 0 THEN {<<>>}
    ELSE {<<>>} \cup UNION {{<<x>> \o l : l \in Lists(S \ {x}, n - 1)} : x \in S}

---------------------------------------------------------------------------
(* The network a host sees.  urlOk says whether http.NewRequest accepts    *)
(* the URLs built from the host name (the https and the http URL differ    *)
(* only in the scheme, so both are accepted or both refused; a refused     *)
(* URL gets no response).  An HTTP exchange is a record: ok is FALSE       *)
(* when client.Do / client.Get returned an error (refused, timed out, TLS  *)
(* handshake failed); cert is the peer certificate of a TLS response       *)
(* ("none", "valid": now inside its validity window, "invalid").  The DNS  *)
(* is a function from names to the answer of net.LookupCNAME for that      *)
(* name; a name outside its domain has no record (lookup error).           *)

NoResponse == [ok |-> FALSE, status |-> 0, length |-> 0, body |-> "", cert |-> "none"]

Response(st, len, bd, crt) ==
    [ok |-> TRUE, status |-> st, length |-> len, body |-> bd, cert |-> crt]

DNSError == [err |-> TRUE, name |-> ""]

Answer(n) == [err |-> FALSE, name |-> n]

\* fmt.Sprintf("https://%s", host) and fmt.Sprintf("http://%s", host)
HttpsURL(host) == "https://" \o host

HttpURL(host) == "http://" \o host

\* the entry the list of network calls keeps for lookupCNAME(host)
CnameQuery(host) == "CNAME " \o host

\* net.LookupCNAME(name) against the DNS function dns
LookupCNAME(dns, name) == IF name \in DOMAIN dns THEN dns[name] ELSE DNSError

---------------------------------------------------------------------------
(* lookupCNAME: the alias chain of a host.  The function recurses on the   *)
(* first hop whenever it differs from the name asked about; depth counts   *)
(* the frames on the goroutine stack, and a recursion that passes MaxDepth *)
(* has exhausted the stack (Go ends the process with a fatal error), which *)
(* overflow reports.  The error of a nested call is dropped by the caller. *)

RECURSIVE lookupCNAME(_, _, _)
lookupCNAME(dns, domain, depth) ==
    IF depth > MaxDepth
    THEN [cnames |-> <<>>, err |-> FALSE, overflow |-> TRUE]
    ELSE
    LET records == LookupCNAME(dns, domain)
    IN  IF records.err
        THEN [cnames |-> <<>>, err |-> TRUE, overflow |-> FALSE]
        ELSE IF records.name = ""
        THEN [cnames |-> <<>>, err |-> FALSE, overflow |-> FALSE]
        ELSE LET cname == TrimSuffix(records.name, ".")
             IN  IF cname # domain
                 THEN LET nested == lookupCNAME(dns, cname, depth + 1)
                      IN  [cnames   |-> <<cname>> \o nested.cnames,
                           err      |-> FALSE,
                           overflow |-> nested.overflow]
                 ELSE [cnames |-> <<cname>>, err |-> FALSE, overflow |-> FALSE]

---------------------------------------------------------------------------
(* cloudCnamePatterns: the regular expressions of the scorer, each with    *)
(* its provider.  All but the first are a literal text that may occur      *)
(* anywhere in the name (kind "lit"); the first is                         *)
(*     s3[\.-]([a-z0-9-]+\.)?amazonaws\.com        (kind "s3").            *)

LabelChars ==
    {"a", "b", "c", "d", "e", "f", "g", "h", "i", "j", "k", "l", "m", "n",
     "o", "p", "q", "r", "s", "t", "u", "v", "w", "x", "y", "z",
     "0", "1", "2", "3", "4", "5", "6", "7", "8", "9", "-"}

\* s[i..j] is a non-empty run of [a-z0-9-]
IsLabelRun(s, i, j) ==
    /\ i <= j
    /\ \A k \in i..j : SubSeq(s, k, k) \in LabelChars

\* regexp.MatchString(`s3[\.-]([a-z0-9-]+\.)?amazonaws\.com`, s)
MatchS3(s) ==
    \E i \in 1..Len(s) :
        /\ HasAt(s, i, "s3.") \/ HasAt(s, i, "s3-")
        /\ \/ HasAt(s, i + 3, "amazonaws.com")
           \/ \E j \in (i + 4)..Len(s) :
                 /\ IsLabelRun(s, i + 3, j - 1)
                 /\ HasAt(s, j, ".amazonaws.com")

cloudCnamePatterns ==
    << [kind |-> "s3",  lit |-> "",                        provider |-> "AWS-S3"],
       [kind |-> "lit", lit |-> ".cloudfront.net",         provider |-> "AWS-CloudFront"],
       [kind |-> "lit", lit |-> ".azure-api.net",          provider |-> "Azure-API"],
       [kind |-> "lit", lit |-> ".azurewebsites.net",      provider |-> "Azure-Web"],
       [kind |-> "lit", lit |-> ".blob.core.windows.net",  provider |-> "Azure-Blob"],
       [kind |-> "lit", lit |-> ".azureedge.net",          provider |-> "Azure-CDN"],
       [kind |-> "lit", lit |-> ".googleapis.com",         provider |-> "Google-API"],
       [kind |-> "lit", lit |-> ".ghs.googlehosted.com",   provider |-> "Google-User"],
       [kind |-> "lit", lit |-> ".firebaseapp.com",        provider |-> "Firebase"],
       [kind |-> "lit", lit |-> ".github.io",              provider |-> "GitHub-Pages"],
       [kind |-> "lit", lit |-> ".cloudapp.net",           provider |-> "Azure-VM"],
       [kind |-> "lit", lit |-> ".trafficmanager.net",     provider |-> "Azure-Traffic"],
       [kind |-> "lit", lit |-> ".herokuapp.com",          provider |-> "Heroku"],
       [kind |-> "lit", lit |-> ".netlify.app",            provider |-> "Netlify"],
       [kind |-> "lit", lit |-> ".pantheonsite.io",        provider |-> "Pantheon"],
       [kind |-> "lit", lit |-> ".fastly.net",             provider |-> "Fastly"],
       [kind |-> "lit", lit |-> ".vercel.app",             provider |-> "Vercel"],
       [kind |-> "lit", lit |-> ".shopifyhostedapps.com",  provider |-> "Shopify"],
       [kind |-> "lit", lit |-> "pagecdn.io",              provider |-> "PageCDN"],
       [kind |-> "lit", lit |-> ".workers.dev",            provider |-> "Cloudflare-Workers"],
       [kind |-> "lit", lit |-> ".appspot.com",            provider |-> "Google-AppEngine"] >>

\* regexp.MatchString(pattern, cname) for the pattern at index p of the table
MatchString(p, cname) ==
    IF cloudCnamePatterns[p].kind = "s3"
    THEN MatchS3(cname)
    ELSE Contains(cname, cloudCnamePatterns[p].lit)

\* the patterns that some hop of the chain matches
MatchedPatterns(cnames) ==
    {p \in DOMAIN cloudCnamePatterns :
        \E k \in DOMAIN cnames : MatchString(p, cnames[k])}

\* The orders in which `range cloudCnamePatterns` may visit the patterns the
\* chain matches.  Go leaves the iteration order of a map unspecified, and a
\* pattern that matches no hop changes nothing, so only the relative order
\* of the matching patterns is kept.
IterationOrders(cnames) == Perms(MatchedPatterns(cnames))

---------------------------------------------------------------------------
(* analyzeSubdomain (scorer).  nt is the network the host sees:            *)
(*   nt.https, nt.http : the exchange for https://host and http://host,    *)
(*   nt.dns            : the DNS.                                          *)
(* order is the order in which the map of patterns is iterated.  The       *)
(* result carries, beside the SubdomainInfo fields the engine reads, the   *)
(* list of network calls in the order they were made (calls) and whether   *)
(* the alias lookup exhausted the stack (overflow).  Headers, TLSIssuer    *)
(* and SANs are copied from the response and read by no later step.        *)

\* lines 123-128: the initial SubdomainInfo
NewSubdomainInfo(subdomain) ==
    [Subdomain     |-> subdomain,
     HTTPStatus    |-> 0,
     ContentLength |-> 0,
     IsTLS         |-> FALSE,
     CNAMEs        |-> <<>>,
     CloudProvider |-> "",
     Score         |-> 10,
     Tags          |-> <<>>]

\* lines 160-179: the certificate's contribution
ScoreCert(info, cert) ==
    IF cert = "none" THEN info
    ELSE IF cert = "valid"
    THEN [info EXCEPT !.Score = @ + 5]
    ELSE [info EXCEPT !.Tags = Append(@, "CERT-INVALID"), !.Score = @ - 3]

\* lines 143-200: HTTPS first, plain HTTP if the HTTPS request failed
AnalyzeHTTP(info, nt) ==
    IF nt.https.ok
    THEN [info  |-> ScoreCert([info EXCEPT !.IsTLS = TRUE,
                                           !.HTTPStatus = nt.https.status,
                                           !.ContentLength = nt.https.length],
                              nt.https.cert),
          calls |-> <<HttpsURL(info.Subdomain)>>]
    ELSE IF nt.http.ok
    THEN [info  |-> [info EXCEPT !.HTTPStatus = nt.http.status,
                                 !.ContentLength = nt.http.length],
          calls |-> <<HttpsURL(info.Subdomain), HttpURL(info.Subdomain)>>]
    ELSE [info  |-> [info EXCEPT !.HTTPStatus = 0,
                                 !.Tags = Append(@, "NO-HTTP")],
          calls |-> <<HttpsURL(info.Subdomain), HttpURL(info.Subdomain)>>]

\* ApplyPatterns that leaves the loop over the patterns once the bucket
\* pattern has matched
RECURSIVE ApplyPatterns_ReturnOnBucket(_, _, _)
ApplyPatterns_ReturnOnBucket(info, cnames, order) ==
    IF order = <<>> THEN info
    ELSE LET p == Head(order)
             matched == \E k \in DOMAIN cnames : MatchString(p, cnames[k])
             next == IF matched
                     THEN [info EXCEPT !.CloudProvider = cloudCnamePatterns[p].provider,
                                       !.Tags = Append(@, cloudCnamePatterns[p].provider),
                                       !.Score = @ + 10]
                     ELSE info
         IN  IF matched /\ cloudCnamePatterns[p].kind = "s3" THEN next
             ELSE ApplyPatterns_ReturnOnBucket(next, cnames, Tail(order))

\* lines 208-218: one pass over the patterns in iteration order; a pattern
\* that some hop matches sets the provider, adds its tag and adds 1.0
RECURSIVE ApplyPatterns(_, _, _)
ApplyPatterns(info, cnames, order) ==
    IF order = <<>> THEN info
    ELSE LET p == Head(order)
             matched == \E k \in DOMAIN cnames : MatchString(p, cnames[k])
             next == IF matched
                     THEN [info EXCEPT !.CloudProvider = cloudCnamePatterns[p].provider,
                                       !.Tags = Append(@, cloudCnamePatterns[p].provider),
                                       !.Score = @ + 10]
                     ELSE info
         IN  ApplyPatterns(next, cnames, Tail(order))

\* lines 202-219: the alias chain and the provider match
AnalyzeCNAME(info, chain, order) ==
    IF chain.err THEN info
    ELSE ApplyPatterns([info EXCEPT !.CNAMEs = chain.cnames], chain.cnames, order)

\* AnalyzeStatus without the case of 403, which then falls into the other
\* 4xx
AnalyzeStatus_No403Case(info) ==
    LET st == info.HTTPStatus
    IN  IF st >= 200 /\ st < 300
        THEN [info EXCEPT !.Tags = Append(@, ToString(st)), !.Score = @ + 10]
        ELSE IF st >= 300 /\ st < 400
        THEN [info EXCEPT !.Tags = Append(Append(@, ToString(st)), "REDIRECT"),
                          !.Score = @ + 5]
        ELSE IF st >= 400 /\ st < 500
        THEN [info EXCEPT !.Tags = Append(@, ToString(st)), !.Score = @ + 2]
        ELSE IF st >= 500
        THEN [info EXCEPT !.Tags = Append(@, ToString(st)), !.Score = @ + 3]
        ELSE info

\* lines 221-239: the tag and the score of the status class
AnalyzeStatus(info) ==
    LET st == info.HTTPStatus
    IN  IF st >= 200 /\ st < 300
        THEN [info EXCEPT !.Tags = Append(@, ToString(st)), !.Score = @ + 10]
        ELSE IF st >= 300 /\ st < 400
        THEN [info EXCEPT !.Tags = Append(Append(@, ToString(st)), "REDIRECT"),
                          !.Score = @ + 5]
        ELSE IF st = 403
        THEN [info EXCEPT !.Tags = Append(@, "403"), !.Score = @ + 7]
        ELSE IF st >= 400 /\ st < 500
        THEN [info EXCEPT !.Tags = Append(@, ToString(st)), !.Score = @ + 2]
        ELSE IF st >= 500
        THEN [info EXCEPT !.Tags = Append(@, ToString(st)), !.Score = @ + 3]
        ELSE info

\* lines 241-250: the size tag and bonus
AnalyzeSize(info) ==
    IF info.ContentLength > 0
    THEN LET sizeKB == info.ContentLength \div 1024
         IN  IF sizeKB > 100
             THEN [info EXCEPT !.Tags = Append(@, "LARGE"), !.Score = @ + 2]
             ELSE [info EXCEPT !.Tags = Append(@, ToString(sizeKB) \o "KB")]
    ELSE info

analyzeSubdomain(subdomain, nt, order) ==
    LET probed == AnalyzeHTTP(NewSubdomainInfo(subdomain), nt)
        chain  == lookupCNAME(nt.dns, subdomain, 1)
    IN  [info     |-> AnalyzeSize(AnalyzeStatus(AnalyzeCNAME(probed.info, chain, order))),
         calls    |-> Append(probed.calls, CnameQuery(subdomain)),
         overflow |-> chain.overflow]

\* the results analyzeSubdomain may return for a host: one for every order
\* in which the map of patterns may be iterated
AnalyzeOutcomes(subdomain, nt) ==
    {analyzeSubdomain(subdomain, nt, order) :
        order \in IterationOrders(lookupCNAME(nt.dns, subdomain, 1).cnames)}

---------------------------------------------------------------------------
(* sortByScore: the exchange sort of the scorer, in place: for every i,    *)
(* and every j after it, swap when results[i].Score < results[j].Score.    *)

\* the comparison reversed: the sort would be ascending
Less_Reversed(a, b) == a.Score > b.Score

Less(a, b) == a.Score < b.Score

Swap(r, i, j) == [r EXCEPT ![i] = r[j], ![j] = r[i]]

RECURSIVE SortInner(_, _, _)
SortInner(r, i, j) ==
    IF j > Len(r) THEN r
    ELSE SortInner(IF Less(r[i], r[j]) THEN Swap(r, i, j) ELSE r, i, j + 1)

RECURSIVE SortOuter(_, _)
SortOuter(r, i) ==
    IF i > Len(r) THEN r
    ELSE SortOuter(SortInner(r, i, i + 1), i + 1)

sortByScore(r) == SortOuter(r, 1)

---------------------------------------------------------------------------
(* probeDomain (probe): the initial request and the alias lookup.  The     *)
(* result carries the ProbeResult, the body read, whether a response was   *)
(* received (resp != nil), the network calls made, whether the function    *)
(* returned before its stages ran (early) and whether the alias lookup     *)
(* exhausted the stack.                                                    *)

\* lines 286-289
NewProbeResult(domain) ==
    [Domain          |-> domain,
     CNAME           |-> "",
     HTTPStatus      |-> 0,
     ContentLength   |-> 0,
     IsTakeover      |-> FALSE,
     S3Public        |-> FALSE,
     S3Private       |-> FALSE,
     ExposedFiles    |-> <<>>,
     RedirectURL     |-> "",
     OpenRedirect    |-> FALSE,
     Vulnerabilities |-> <<>>,
     Tags            |-> <<>>]

\* io.ReadAll(io.LimitReader(body, limit))
LimitRead(body, limit) == SubSeq(body, 1, Min(Len(body), limit))

\* InitialProbe that also tries HTTP after an HTTPS answer and keeps the
\* later answer
InitialProbe_AlwaysHTTP(result, nt) ==
    IF ~nt.urlOk
    THEN [result |-> result, body |-> "", resp |-> FALSE, calls |-> <<>>,
          early |-> TRUE]
    ELSE LET first == IF nt.https.ok
                      THEN [result EXCEPT !.HTTPStatus = nt.https.status,
                                          !.ContentLength = nt.https.length]
                      ELSE result
         IN  [result |-> IF nt.http.ok
                         THEN [first EXCEPT !.HTTPStatus = nt.http.status,
                                            !.ContentLength = nt.http.length]
                         ELSE first,
              body   |-> IF nt.http.ok THEN LimitRead(nt.http.body, 10 * 1024)
                         ELSE IF nt.https.ok THEN LimitRead(nt.https.body, 10 * 1024)
                         ELSE "",
              resp   |-> nt.https.ok \/ nt.http.ok,
              calls  |-> <<HttpsURL(result.Domain), HttpURL(result.Domain)>>,
              early  |-> FALSE]

\* lines 306-342: GET https://domain, and GET http://domain if that failed
InitialProbe(result, nt) ==
    IF ~nt.urlOk
    THEN [result |-> result, body |-> "", resp |-> FALSE, calls |-> <<>>,
          early |-> TRUE]
    ELSE IF nt.https.ok
    THEN [result |-> [result EXCEPT !.HTTPStatus = nt.https.status,
                                    !.ContentLength = nt.https.length],
          body   |-> LimitRead(nt.https.body, 10 * 1024),
          resp   |-> TRUE,
          calls  |-> <<HttpsURL(result.Domain)>>,
          early  |-> FALSE]
    ELSE IF nt.http.ok
    THEN [result |-> [result EXCEPT !.HTTPStatus = nt.http.status,
                                    !.ContentLength = nt.http.length],
          body   |-> LimitRead(nt.http.body, 10 * 1024),
          resp   |-> TRUE,
          calls  |-> <<HttpsURL(result.Domain), HttpURL(result.Domain)>>,
          early  |-> FALSE]
    ELSE [result |-> result, body |-> "", resp |-> FALSE,
          calls |-> <<HttpsURL(result.Domain), HttpURL(result.Domain)>>,
          early |-> FALSE]

\* lines 344-348: result.CNAME is the first hop of the chain
ProbeCNAME(result, chain) ==
    IF ~chain.err /\ Len(chain.cnames) > 0
    THEN [result EXCEPT !.CNAME = chain.cnames[1]]
    ELSE result

---------------------------------------------------------------------------
(* The signature tables of the probe, in source order. *)

Sig(p, c, m) == [provider |-> p, cname |-> c, matches |-> m]

takeoversignatures ==
    << Sig("AWS/S3", <<"s3.amazonaws.com", "amazonaws.com.s3", ".s3.amazonaws.com">>,
           <<"NoSuchBucket", "The specified bucket does not exist">>),
       Sig("Heroku", <<"herokuapp.com", "herokuapp">>,
           <<"No such app", "Heroku | No such app",
             "herokucdn.com/error-pages/no-such-app.html">>),
       Sig("GitHub", <<"github.io">>,
           <<"There isn't a GitHub Pages site here",
             "For root URLs (like http://example.com/) you must provide an index.html file">>),
       Sig("Azure", <<"azurewebsites.net", "cloudapp.net", "azure-api.net">>,
           <<"404 Web Site not found">>),
       Sig("Fastly", <<"fastly.net">>, <<"Fastly error: unknown domain", "fastly error">>),
       Sig("Pantheon", <<"pantheonsite.io">>,
           <<"The gods are wise", "404 error unknown site!">>),
       Sig("Shopify", <<"myshopify.com">>,
           <<"Sorry, this shop is currently unavailable">>),
       Sig("Zendesk", <<"zendesk.com">>, <<"Help Center Closed">>),
       Sig("Wordpress", <<"wordpress.com">>, <<"Do you want to register">>),
       Sig("Acquia", <<"acquia-sites.com">>,
           <<"The site you are looking for could not be found.">>),
       Sig("Agile CRM", <<"cname.agilecrm.com">>,
           <<"Sorry, this page is no longer available.">>),
       Sig("Bitbucket", <<"bitbucket.io">>, <<"Repository not found">>),
       Sig("Campaign Monitor", <<"createsend.com">>, <<"Double check the URL">>),
       Sig("DigitalOcean", <<"digitalocean.com">>,
           <<"404 Not Found", "Domain uses DO name servers with no records in DO.">>),
       Sig("Ghost", <<"ghost.io">>, <<"Domain is not configured", "404 Not Found">>),
       Sig("Strikingly", <<"s.strikinglydns.com">>,
           <<"But if you're looking to build your own website", "406 not acceptable">>),
       Sig("Surge.sh", <<"surge.sh">>, <<"project not found">>),
       Sig("Tumblr", <<"domains.tumblr.com">>,
           <<"Whatever you were looking for doesn't currently exist at this address.">>),
       Sig("Webflow", <<"proxy.webflow.com", "proxy-ssl.webflow.com">>,
           <<"The page you are looking for doesn't exist or has been moved.">>),
       Sig("Vercel", <<"vercel-dns.com", "vercel.app">>,
           <<"The deployment could not be found on Vercel.">>),
       Sig("Netlify", <<"netlify.app", "netlify.com">>, <<"Not found", "404">>) >>

FilePath(p, d, c) == [path |-> p, description |-> d, contentSigs |-> c]

sensitiveFilePaths ==
    << FilePath(".env", "Environment Variables File",
                <<"DB_PASSWORD", "API_KEY", "SECRET">>),
       FilePath("/.env", "Environment Variables File",
                <<"DB_PASSWORD", "API_KEY", "SECRET">>),
       FilePath("/.git/config", "Git Config File",
                <<"[core]", "repositoryformatversion", "filemode">>),
       FilePath("/config.json", "Configuration File",
                <<"password", "secret", "key", "token">>),
       FilePath("/wp-config.php", "WordPress Config", <<"DB_PASSWORD", "AUTH_KEY">>),
       FilePath("/robots.txt", "Robots.txt File", <<"Disallow:", "Allow:">>),
       FilePath("/sitemap.xml", "Sitemap", <<"<urlset", "<url>", "<loc>">>),
       FilePath("/.well-known/security.txt", "Security Policy",
                <<"Contact:", "Expires:">>),
       FilePath("/server-status", "Apache Status Page",
                <<"Apache Server Status", "Server Version:">>),
       FilePath("/phpinfo.php", "PHP Info", <<"PHP Version", "PHP Credits">>) >>

Template(p, q) == [pathPattern |-> p, param |-> q]

openRedirectPatterns ==
    << Template("/redirect", "url"), Template("/login", "next"),
       Template("/logout", "next"), Template("/signin", "redirect"),
       Template("/auth/callback", "url"), Template("/go", "url"),
       Template("/redirect", "to"), Template("/", "url"),
       Template("/", "redirect_to"), Template("/", "redirect_uri"),
       Template("/", "return_to"), Template("/", "next"),
       Template("/", "redir"), Template("/", "r") >>

---------------------------------------------------------------------------
(* The stages of probeDomain after the alias lookup.  resp tells whether   *)
(* the initial probe got a response (resp != nil) and body is what was     *)
(* read of it.  nt.web gives the response to each further GET; a response  *)
(* to such a GET is [ok, status, body, location].                          *)

Page(st, bd, loc) == [ok |-> TRUE, status |-> st, body |-> bd, location |-> loc]

\* client.Do(req) for the GET of url
Fetch(nt, url) == IF url \in DOMAIN nt.web THEN nt.web[url] ELSE NoResponse

\* ContentLoop without the break of line 363: every fingerprint the body
\* contains records the takeover again
RECURSIVE ContentLoop_NoBreak(_, _, _, _, _)
ContentLoop_NoBreak(result, body, resp, p, k) ==
    IF k > Len(takeoversignatures[p].matches) THEN result
    ELSE ContentLoop_NoBreak(
             IF resp /\ Contains(body, takeoversignatures[p].matches[k])
             THEN [result EXCEPT
                      !.IsTakeover = TRUE,
                      !.Vulnerabilities =
                          Append(@, "Subdomain Takeover ("
                                       \o takeoversignatures[p].provider \o ")"),
                      !.Tags = @ \o <<"TAKEOVER-CANDIDATE",
                                      takeoversignatures[p].provider>>]
             ELSE result,
             body, resp, p, k + 1)

\* lines 356-365: the first fingerprint the body contains records the
\* takeover and ends the loop
RECURSIVE ContentLoop(_, _, _, _, _)
ContentLoop(result, body, resp, p, k) ==
    IF k > Len(takeoversignatures[p].matches) THEN result
    ELSE IF resp /\ Contains(body, takeoversignatures[p].matches[k])
    THEN [result EXCEPT
             !.IsTakeover = TRUE,
             !.Vulnerabilities =
                 Append(@, "Subdomain Takeover (" \o takeoversignatures[p].provider \o ")"),
             !.Tags = @ \o <<"TAKEOVER-CANDIDATE", takeoversignatures[p].provider>>]
    ELSE ContentLoop(result, body, resp, p, k + 1)

\* lines 353-368: the first alias pattern result.CNAME contains decides
RECURSIVE CnameLoop(_, _, _, _, _)
CnameLoop(result, body, resp, p, j) ==
    IF j > Len(takeoversignatures[p].cname) THEN result
    ELSE IF Contains(result.CNAME, takeoversignatures[p].cname[j])
    THEN ContentLoop(result, body, resp, p, 1)
    ELSE CnameLoop(result, body, resp, p, j + 1)

\* line 352: the providers in the order the map is iterated
RECURSIVE ProviderLoop(_, _, _, _)
ProviderLoop(result, body, resp, order) ==
    IF order = <<>> THEN result
    ELSE ProviderLoop(CnameLoop(result, body, resp, Head(order), 1),
                      body, resp, Tail(order))

\* lines 350-370
TakeoverStage(result, body, resp, order) ==
    IF result.CNAME # "" THEN ProviderLoop(result, body, resp, order) ELSE result

\* The providers of which some alias pattern occurs in cname.  Go leaves the
\* iteration order of the map unspecified and a provider whose patterns do
\* not occur changes nothing, so only the relative order of these is kept.
AliasProviders(cname) ==
    {p \in DOMAIN takeoversignatures :
        \E j \in DOMAIN takeoversignatures[p].cname :
            Contains(cname, takeoversignatures[p].cname[j])}

TakeoverOrders(cname) == Perms(AliasProviders(cname))

\* the first position from i on at which p occurs in s, 0 if there is none
FindFrom(s, p, i) ==
    LET at == {k \in i..(Len(s) - Len(p) + 1) : HasAt(s, k, p)}
    IN  IF at = {} THEN 0 ELSE CHOOSE k \in at : \A m \in at : k <= m

\* the <Key> elements of a listing from position i on, in listing order
RECURSIVE ListingKeys(_, _)
ListingKeys(body, i) ==
    LET open == FindFrom(body, "<Key>", i)
        shut == IF open = 0 THEN 0 ELSE FindFrom(body, "</Key>", open + 5)
    IN  IF open = 0 \/ shut = 0 THEN <<>>
        ELSE <<SubSeq(body, open + 5, shut - 1)>> \o ListingKeys(body, shut + 6)

\* xml.Unmarshal(body, &bucketResult): the document must be complete, which
\* for the listings of this model means that the root element is closed and
\* every <Key> is
ParseListing(body) ==
    LET opens == Cardinality({k \in 1..Len(body) : HasAt(body, k, "<Key>")})
        keys  == ListingKeys(body, 1)
    IN  IF Contains(body, "</ListBucketResult>") /\ Len(keys) = opens
        THEN [err |-> FALSE, keys |-> keys]
        ELSE [err |-> TRUE, keys |-> <<>>]

\* S3Stage with the three markers tested one after the other instead of in
\* an else-if chain
S3Stage_EveryMarker(result, body, resp) ==
    IF \/ /\ result.CNAME # ""
          /\ \/ Contains(result.CNAME, "s3.amazonaws.com")
             \/ Contains(result.CNAME, "amazonaws.com")
       \/ resp /\ Contains(body, "<ListBucketResult")
    THEN LET public == IF Contains(body, "<ListBucketResult")
                       THEN [result EXCEPT
                                !.S3Public = TRUE,
                                !.Vulnerabilities = Append(@, "Public S3 Bucket"),
                                !.Tags = Append(@, "PUBLIC-S3")]
                       ELSE result
             private == IF Contains(body, "AccessDenied")
                        THEN [public EXCEPT !.S3Private = TRUE,
                                            !.Tags = Append(@, "PRIVATE-S3")]
                        ELSE public
         IN  IF Contains(body, "NoSuchBucket")
             THEN [private EXCEPT
                      !.Vulnerabilities = Append(@, "Unclaimed S3 Bucket"),
                      !.Tags = Append(@, "UNCLAIMED-S3")]
             ELSE private
    ELSE result

\* S3Stage that keeps every key of the listing
S3Stage_AllKeys(result, body, resp) ==
    IF \/ /\ result.CNAME # ""
          /\ \/ Contains(result.CNAME, "s3.amazonaws.com")
             \/ Contains(result.CNAME, "amazonaws.com")
       \/ resp /\ Contains(body, "<ListBucketResult")
    THEN IF Contains(body, "<ListBucketResult")
         THEN LET listing == ParseListing(body)
                  public  == [result EXCEPT
                                 !.S3Public = TRUE,
                                 !.Vulnerabilities = Append(@, "Public S3 Bucket"),
                                 !.Tags = Append(@, "PUBLIC-S3")]
              IN  IF ~listing.err /\ Len(listing.keys) > 0
                  THEN [public EXCEPT !.ExposedFiles = listing.keys]
                  ELSE public
         ELSE IF Contains(body, "AccessDenied")
         THEN [result EXCEPT !.S3Private = TRUE, !.Tags = Append(@, "PRIVATE-S3")]
         ELSE IF Contains(body, "NoSuchBucket")
         THEN [result EXCEPT
                  !.Vulnerabilities = Append(@, "Unclaimed S3 Bucket"),
                  !.Tags = Append(@, "UNCLAIMED-S3")]
         ELSE result
    ELSE result

\* lines 372-408
S3Stage(result, body, resp) ==
    IF \/ /\ result.CNAME # ""
          /\ \/ Contains(result.CNAME, "s3.amazonaws.com")
             \/ Contains(result.CNAME, "amazonaws.com")
       \/ resp /\ Contains(body, "<ListBucketResult")
    THEN IF Contains(body, "<ListBucketResult")
         THEN LET listing == ParseListing(body)
                  public  == [result EXCEPT
                                 !.S3Public = TRUE,
                                 !.Vulnerabilities = Append(@, "Public S3 Bucket"),
                                 !.Tags = Append(@, "PUBLIC-S3")]
              IN  IF ~listing.err /\ Len(listing.keys) > 0
                  THEN [public EXCEPT
                           !.ExposedFiles =
                               SubSeq(listing.keys, 1, Min(Len(listing.keys), 5))]
                  ELSE public
         ELSE IF Contains(body, "AccessDenied")
         THEN [result EXCEPT !.S3Private = TRUE, !.Tags = Append(@, "PRIVATE-S3")]
         ELSE IF Contains(body, "NoSuchBucket")
         THEN [result EXCEPT
                  !.Vulnerabilities = Append(@, "Unclaimed S3 Bucket"),
                  !.Tags = Append(@, "UNCLAIMED-S3")]
         ELSE result
    ELSE result

\* line 417
FileURL(domain, i) == "https://" \o domain \o sensitiveFilePaths[i].path

\* SigLoop without the break: every fingerprint the body contains records
\* the exposure again
RECURSIVE SigLoop_NoBreak(_, _, _, _)
SigLoop_NoBreak(result, fileBody, i, k) ==
    IF k > Len(sensitiveFilePaths[i].contentSigs) THEN result
    ELSE IF Contains(fileBody, sensitiveFilePaths[i].contentSigs[k])
    THEN SigLoop_NoBreak(
             [result EXCEPT
                 !.Vulnerabilities =
                     Append(@, "Exposed " \o sensitiveFilePaths[i].description),
                 !.Tags = Append(@, "EXPOSED-" \o
                             ToUpper(LastSegment(sensitiveFilePaths[i].path, "/"))),
                 !.ExposedFiles = Append(@, sensitiveFilePaths[i].path)],
             fileBody, i, k + 1)
    ELSE SigLoop_NoBreak(result, fileBody, i, k + 1)

\* lines 437-446: the first fingerprint the file's body contains records the
\* exposure and ends the loop
RECURSIVE SigLoop(_, _, _, _)
SigLoop(result, fileBody, i, k) ==
    IF k > Len(sensitiveFilePaths[i].contentSigs) THEN result
    ELSE IF Contains(fileBody, sensitiveFilePaths[i].contentSigs[k])
    THEN [result EXCEPT
             !.Vulnerabilities =
                 Append(@, "Exposed " \o sensitiveFilePaths[i].description),
             !.Tags = Append(@, "EXPOSED-" \o
                         ToUpper(LastSegment(sensitiveFilePaths[i].path, "/"))),
             !.ExposedFiles = Append(@, sensitiveFilePaths[i].path)]
    ELSE SigLoop(result, fileBody, i, k + 1)

\* lines 417-447: the check of the i-th path
FileCheck(result, domain, nt, i) ==
    LET fileResp == Fetch(nt, FileURL(domain, i))
    IN  IF ~fileResp.ok THEN result
        ELSE IF fileResp.status = 200
        THEN SigLoop(result, LimitRead(fileResp.body, 5 * 1024), i, 1)
        ELSE result

\* lines 411-448; st is [result, calls]
RECURSIVE FilesLoop(_, _, _, _)
FilesLoop(st, domain, nt, i) ==
    IF i > Len(sensitiveFilePaths) THEN st
    ELSE IF Len(st.result.Vulnerabilities) >= 5 THEN st
    ELSE FilesLoop([result |-> FileCheck(st.result, domain, nt, i),
                    calls  |-> Append(st.calls, FileURL(domain, i))],
                   domain, nt, i + 1)

\* lines 463-464
TestURL(domain, i) ==
    "https://" \o domain \o openRedirectPatterns[i].pathPattern \o "?"
        \o openRedirectPatterns[i].param \o "=https://evil.com"

\* RedirectCheck that records the finding without the URL that showed it
RedirectCheck_NoURL(result, domain, nt, i) ==
    LET redirectResp == Fetch(nt, TestURL(domain, i))
    IN  IF ~redirectResp.ok THEN result
        ELSE IF /\ redirectResp.status >= 300
                /\ redirectResp.status < 400
                /\ Contains(redirectResp.location, "evil.com")
        THEN [result EXCEPT
                 !.OpenRedirect = TRUE,
                 !.Vulnerabilities = Append(@, "Open Redirect"),
                 !.Tags = Append(@, "OPEN-REDIRECT")]
        ELSE result

\* RedirectCheck that looks at the Location header alone, whatever the status
RedirectCheck_AnyStatus(result, domain, nt, i) ==
    LET redirectResp == Fetch(nt, TestURL(domain, i))
    IN  IF ~redirectResp.ok THEN result
        ELSE IF Contains(redirectResp.location, "evil.com")
        THEN [result EXCEPT
                 !.OpenRedirect = TRUE,
                 !.RedirectURL = TestURL(domain, i),
                 !.Vulnerabilities = Append(@, "Open Redirect"),
                 !.Tags = Append(@, "OPEN-REDIRECT")]
        ELSE result

\* lines 463-488: the probe of the i-th template
RedirectCheck(result, domain, nt, i) ==
    LET redirectResp == Fetch(nt, TestURL(domain, i))
    IN  IF ~redirectResp.ok THEN result
        ELSE IF /\ redirectResp.status >= 300
                /\ redirectResp.status < 400
                /\ Contains(redirectResp.location, "evil.com")
        THEN [result EXCEPT
                 !.OpenRedirect = TRUE,
                 !.RedirectURL = TestURL(domain, i),
                 !.Vulnerabilities = Append(@, "Open Redirect"),
                 !.Tags = Append(@, "OPEN-REDIRECT")]
        ELSE result

\* lines 451-489; st is [result, calls]
RECURSIVE RedirectsLoop(_, _, _, _)
RedirectsLoop(st, domain, nt, i) ==
    IF i > Len(openRedirectPatterns) THEN st
    ELSE IF st.result.OpenRedirect THEN st
    ELSE IF Len(st.result.Vulnerabilities) >= 5 THEN st
    ELSE RedirectsLoop([result |-> RedirectCheck(st.result, domain, nt, i),
                        calls  |-> Append(st.calls, TestURL(domain, i))],
                       domain, nt, i + 1)

\* lines 285-492.  order is the order in which the map of takeover
\* signatures is iterated.
probeDomain(domain, nt, order) ==
    LET probed == InitialProbe(NewProbeResult(domain), nt)
    IN  IF probed.early
        THEN [result |-> probed.result, body |-> probed.body, resp |-> probed.resp,
              calls |-> probed.calls, early |-> TRUE, overflow |-> FALSE]
        ELSE LET chain  == lookupCNAME(nt.dns, domain, 1)
                 named  == ProbeCNAME(probed.result, chain)
                 staged == S3Stage(TakeoverStage(named, probed.body, probed.resp, order),
                                   probed.body, probed.resp)
                 files  == FilesLoop([result |-> staged,
                                      calls  |-> Append(probed.calls, CnameQuery(domain))],
                                     domain, nt, 1)
                 final  == RedirectsLoop(files, domain, nt, 1)
             IN  [result   |-> final.result,
                  body     |-> probed.body,
                  resp     |-> probed.resp,
                  calls    |-> final.calls,
                  early    |-> FALSE,
                  overflow |-> chain.overflow]

\* the results probeDomain may return for a host: one for every order in
\* which the map of takeover signatures may be iterated
ProbeOutcomes(domain, nt) ==
    {probeDomain(domain, nt, order) :
        order \in TakeoverOrders(
            ProbeCNAME(NewProbeResult(domain), lookupCNAME(nt.dns, domain, 1)).CNAME)}

---------------------------------------------------------------------------
(* isAlive (resolver): the lookup with a deadline, then the plain lookup.  *)
(* A lookup is [err, ips]: whether it failed and how many addresses it     *)
(* returned.                                                               *)

Resolved(lookup) == ~lookup.err /\ lookup.ips > 0

\* isAlive without the fallback lookup
isAlive_PrimaryOnly(nt) ==
    IF Resolved(nt.lookupCtx) THEN TRUE ELSE FALSE

isAlive(nt) ==
    IF Resolved(nt.lookupCtx) THEN TRUE
    ELSE IF Resolved(nt.lookupPlain) THEN TRUE
    ELSE FALSE

\* A resolver that never answers (silent) ends the lookup of line 87 with
\* the error of its 5 s deadline (line 84).  The lookup of line 94 is given no
\* deadline: the code itself does not bound its wait.
Blocks(nt) == ~Resolved(nt.lookupCtx) /\ nt.lookupPlain.silent

---------------------------------------------------------------------------
(* The hosts of the scheduler runs, each with the network it sees.         *)
(*   good : answers 200 over HTTPS with a valid certificate, no alias;     *)
(*   dead, gone : nothing answers, no DNS record;                          *)
(*   cdn  : 403 over HTTPS, alias chain through CloudFront to S3;          *)
(*   loop : nothing answers, its aliases form the cycle loop -> l2 -> l3   *)
(*          -> loop;                                                       *)
(*   mute : its resolver never answers;                                    *)
(*   late : its resolver answers the second lookup only.                   *)

\* no further URL answers
NoWeb == [u \in {} |-> NoResponse]

NoAddress == [err |-> TRUE, ips |-> 0, silent |-> FALSE]

Addresses(n) == [err |-> FALSE, ips |-> n, silent |-> FALSE]

NeverAnswers == [err |-> TRUE, ips |-> 0, silent |-> TRUE]

HostNet(h) ==
    CASE h = "good.example.com" ->
           [urlOk |-> TRUE,
            https |-> Response(200, 5000, "<html>welcome</html>", "valid"),
            http  |-> Response(301, 0, "", "none"),
            dns   |-> [n \in {"good.example.com"} |-> Answer("good.example.com.")],
            lookupCtx |-> Addresses(2), lookupPlain |-> Addresses(2),
            web |-> NoWeb]
      [] h = "cdn.example.com" ->
           [urlOk |-> TRUE,
            https |-> Response(403, 243, "AccessDenied", "valid"),
            http  |-> NoResponse,
            dns   |-> [n \in {"cdn.example.com", "d1.cloudfront.net",
                              "b.s3.amazonaws.com"} |->
                          CASE n = "cdn.example.com" -> Answer("d1.cloudfront.net.")
                            [] n = "d1.cloudfront.net" -> Answer("b.s3.amazonaws.com.")
                            [] OTHER -> Answer("b.s3.amazonaws.com.")],
            lookupCtx |-> NoAddress, lookupPlain |-> Addresses(1),
            web |-> NoWeb]
      [] h = "loop.example.com" ->
           [urlOk |-> TRUE,
            https |-> NoResponse,
            http  |-> NoResponse,
            dns   |-> [n \in {"loop.example.com", "l2.example.com",
                              "l3.example.com"} |->
                          CASE n = "loop.example.com" -> Answer("l2.example.com.")
                            [] n = "l2.example.com" -> Answer("l3.example.com.")
                            [] OTHER -> Answer("loop.example.com.")],
            lookupCtx |-> Addresses(0), lookupPlain |-> NoAddress,
            web |-> NoWeb]
      [] h = "mute.example.com" ->
           [urlOk |-> TRUE,
            https |-> NoResponse,
            http  |-> NoResponse,
            dns   |-> [n \in {} |-> DNSError],
            lookupCtx |-> NeverAnswers, lookupPlain |-> NeverAnswers,
            web |-> NoWeb]
      [] h = "late.example.com" ->
           [urlOk |-> TRUE,
            https |-> NoResponse,
            http  |-> NoResponse,
            dns   |-> [n \in {} |-> DNSError],
            lookupCtx |-> NeverAnswers, lookupPlain |-> Addresses(1),
            web |-> NoWeb]
      [] OTHER ->
           [urlOk |-> TRUE,
            https |-> NoResponse,
            http  |-> NoResponse,
            dns   |-> [n \in {} |-> DNSError],
            lookupCtx |-> NoAddress, lookupPlain |-> NoAddress,
            web |-> NoWeb]

WorldHosts ==
    {"dead.example.com", "gone.example.com", "cdn.example.com",
     "loop.example.com"}

\* What evaluating each host of the world yields on its network: the results
\* analyzeSubdomain may return (line 86 of the scorer) and the result of
\* probeDomain (line 242 of the probe)
HostAnalyses == [h \in WorldHosts |-> AnalyzeOutcomes(h, HostNet(h))]

HostProbes == [h \in WorldHosts |-> ProbeOutcomes(h, HostNet(h))]

---------------------------------------------------------------------------
(* The scheduler runs.  A run executes one entry point on an input list    *)
(* with a worker budget.  Goroutines of one pool run the same closure, so  *)
(* the pool is numbered and, of the workers blocked in `range jobs`, the   *)
(* lowest-numbered one receives (or sees the channel closed) next.         *)

Inputs(hosts) == Lists(hosts, MaxHosts)

Budgets == (0 - 1)..MaxConc

NoEval == [kind |-> "none"]

\* the scheduler state before the entry point's first statement
InitRun(p, hosts, budgets) ==
    /\ prog = p
    /\ subdomains \in Inputs(hosts)
    /\ Concurrency \in budgets
    /\ mainPc = "start"
    /\ sent = 0
    /\ jobs = <<>>
    /\ jobsClosed = FALSE
    /\ wg = 0
    /\ wpc = <<>>
    /\ wjob = <<>>
    /\ winfo = <<>>
    /\ mu = 0
    /\ results = <<>>
    /\ semaphore = 0
    /\ resultsChan = <<>>
    /\ chanClosed = FALSE
    /\ closerPc = "none"
    /\ processed = 0
    /\ reporterPc = "none"
    /\ current = 0
    /\ ret = <<>>
    /\ net = NoEval
    /\ evalOut = NoEval

\* no scheduler runs: a single call p is evaluated
InitCall(p) ==
    /\ prog = p
    /\ subdomains = <<>>
    /\ Concurrency = 0
    /\ mainPc = "none"
    /\ sent = 0
    /\ jobs = <<>>
    /\ jobsClosed = FALSE
    /\ wg = 0
    /\ wpc = <<>>
    /\ wjob = <<>>
    /\ winfo = <<>>
    /\ mu = 0
    /\ results = <<>>
    /\ semaphore = 0
    /\ resultsChan = <<>>
    /\ chanClosed = FALSE
    /\ closerPc = "none"
    /\ processed = 0
    /\ reporterPc = "none"
    /\ current = 0
    /\ ret = <<>>
    /\ evalOut = NoEval

Running(p) == prog = p /\ mainPc # "fatal"

Workers == DOMAIN wpc

\* the worker that `range jobs` serves next
IsNextReceiver(w) ==
    /\ w \in Workers
    /\ wpc[w] = "recv"
    /\ \A v \in 1..(w - 1) : wpc[v] # "recv"

\* a new goroutine of the pool, blocked in `range jobs`
SpawnWorker ==
    /\ wpc' = Append(wpc, "recv")
    /\ wjob' = Append(wjob, "")
    /\ winfo' = Append(winfo, <<>>)

---------------------------------------------------------------------------
(* scorer.AnalyzeSubdomains *)

\* lines 75-80: results, mu, wg and the jobs channel
AS_Start ==
    /\ Running("AnalyzeSubdomains")
    /\ mainPc = "start"
    /\ mainPc' = "spawn"
    /\ UNCHANGED <<prog, subdomains, Concurrency, sent, jobs, jobsClosed, wg,
                   wpc, wjob, winfo, mu, results, semaphore, resultsChan,
                   chanClosed, closerPc, processed, reporterPc, current, ret>>
    /\ UNCHANGED evalVars

\* lines 83-103: for i := 0; i < options.Concurrency; i++ { go func() ... }
AS_Spawn ==
    /\ Running("AnalyzeSubdomains")
    /\ mainPc = "spawn"
    /\ IF Len(wpc) < Concurrency
       THEN SpawnWorker /\ UNCHANGED mainPc
       ELSE mainPc' = "add" /\ UNCHANGED <<wpc, wjob, winfo>>
    /\ UNCHANGED <<prog, subdomains, Concurrency, sent, jobs, jobsClosed, wg,
                   mu, results, semaphore, resultsChan, chanClosed, closerPc,
                   processed, reporterPc, current, ret>>
    /\ UNCHANGED evalVars

\* lines 106-107: the dispatch loop's test and wg.Add(1)
AS_Add ==
    /\ Running("AnalyzeSubdomains")
    /\ mainPc = "add"
    /\ IF sent < Len(subdomains)
       THEN wg' = wg + 1 /\ mainPc' = "send"
       ELSE mainPc' = "wait" /\ UNCHANGED wg
    /\ UNCHANGED <<prog, subdomains, Concurrency, sent, jobs, jobsClosed,
                   wpc, wjob, winfo, mu, results, semaphore, resultsChan,
                   chanClosed, closerPc, processed, reporterPc, current, ret>>
    /\ UNCHANGED evalVars

\* line 108: jobs <- subdomain (the buffer holds len(subdomains) values)
AS_Send ==
    /\ Running("AnalyzeSubdomains")
    /\ mainPc = "send"
    /\ Len(jobs) < Len(subdomains)
    /\ jobs' = Append(jobs, subdomains[sent + 1])
    /\ sent' = sent + 1
    /\ mainPc' = "add"
    /\ UNCHANGED <<prog, subdomains, Concurrency, jobsClosed, wg,
                   wpc, wjob, winfo, mu, results, semaphore, resultsChan,
                   chanClosed, closerPc, processed, reporterPc, current, ret>>
    /\ UNCHANGED evalVars

\* line 112: wg.Wait()
AS_Wait ==
    /\ Running("AnalyzeSubdomains")
    /\ mainPc = "wait"
    /\ wg = 0
    /\ mainPc' = "close"
    /\ UNCHANGED <<prog, subdomains, Concurrency, sent, jobs, jobsClosed, wg,
                   wpc, wjob, winfo, mu, results, semaphore, resultsChan,
                   chanClosed, closerPc, processed, reporterPc, current, ret>>
    /\ UNCHANGED evalVars

\* line 113: close(jobs)
AS_Close ==
    /\ Running("AnalyzeSubdomains")
    /\ mainPc = "close"
    /\ jobsClosed' = TRUE
    /\ mainPc' = "sort"
    /\ UNCHANGED <<prog, subdomains, Concurrency, sent, jobs, wg,
                   wpc, wjob, winfo, mu, results, semaphore, resultsChan,
                   chanClosed, closerPc, processed, reporterPc, current, ret>>
    /\ UNCHANGED evalVars

\* lines 116-118: sortByScore(results); return results
AS_SortReturn ==
    /\ Running("AnalyzeSubdomains")
    /\ mainPc = "sort"
    /\ results' = sortByScore(results)
    /\ ret' = results'
    /\ mainPc' = "returned"
    /\ UNCHANGED <<prog, subdomains, Concurrency, sent, jobs, jobsClosed, wg,
                   wpc, wjob, winfo, mu, semaphore, resultsChan,
                   chanClosed, closerPc, processed, reporterPc, current>>
    /\ UNCHANGED evalVars

\* line 85: for subdomain := range jobs, a value is received
AS_Receive(w) ==
    /\ Running("AnalyzeSubdomains")
    /\ IsNextReceiver(w)
    /\ jobs # <<>>
    /\ wjob' = [wjob EXCEPT ![w] = Head(jobs)]
    /\ jobs' = Tail(jobs)
    /\ wpc' = [wpc EXCEPT ![w] = "analyze"]
    /\ UNCHANGED <<prog, subdomains, Concurrency, mainPc, sent, jobsClosed, wg,
                   winfo, mu, results, semaphore, resultsChan,
                   chanClosed, closerPc, processed, reporterPc, current, ret>>
    /\ UNCHANGED evalVars

\* line 85: the channel is closed and drained, the worker returns
AS_Exit(w) ==
    /\ Running("AnalyzeSubdomains")
    /\ IsNextReceiver(w)
    /\ jobs = <<>>
    /\ jobsClosed
    /\ wpc' = [wpc EXCEPT ![w] = "exited"]
    /\ UNCHANGED <<prog, subdomains, Concurrency, mainPc, sent, jobs, jobsClosed,
                   wg, wjob, winfo, mu, results, semaphore, resultsChan,
                   chanClosed, closerPc, processed, reporterPc, current, ret>>
    /\ UNCHANGED evalVars

\* line 86: info := analyzeSubdomain(subdomain, options); a lookup that
\* exhausts the stack ends the process
AS_Analyze(w) ==
    /\ Running("AnalyzeSubdomains")
    /\ w \in Workers
    /\ wpc[w] = "analyze"
    /\ \E out \in HostAnalyses[wjob[w]] :
          IF out.overflow
          THEN mainPc' = "fatal" /\ UNCHANGED <<wpc, winfo>>
          ELSE /\ winfo' = [winfo EXCEPT ![w] = <<out.info>>]
               /\ wpc' = [wpc EXCEPT ![w] = "lock"]
               /\ UNCHANGED mainPc
    /\ UNCHANGED <<prog, subdomains, Concurrency, sent, jobs, jobsClosed, wg,
                   wjob, mu, results, semaphore, resultsChan,
                   chanClosed, closerPc, processed, reporterPc, current, ret>>
    /\ UNCHANGED evalVars

\* AS_Lock that does not wait for the mutex to be free
AS_Lock_NoWait(w) ==
    /\ Running("AnalyzeSubdomains")
    /\ w \in Workers
    /\ wpc[w] = "lock"
    /\ mu' = w
    /\ wpc' = [wpc EXCEPT ![w] = "append"]
    /\ UNCHANGED <<prog, subdomains, Concurrency, mainPc, sent, jobs, jobsClosed,
                   wg, wjob, winfo, results, semaphore, resultsChan,
                   chanClosed, closerPc, processed, reporterPc, current, ret>>
    /\ UNCHANGED evalVars

\* line 88: mu.Lock()
AS_Lock(w) ==
    /\ Running("AnalyzeSubdomains")
    /\ w \in Workers
    /\ wpc[w] = "lock"
    /\ mu = 0
    /\ mu' = w
    /\ wpc' = [wpc EXCEPT ![w] = "append"]
    /\ UNCHANGED <<prog, subdomains, Concurrency, mainPc, sent, jobs, jobsClosed,
                   wg, wjob, winfo, results, semaphore, resultsChan,
                   chanClosed, closerPc, processed, reporterPc, current, ret>>
    /\ UNCHANGED evalVars

\* lines 89-90: results = append(results, info); mu.Unlock()
AS_AppendUnlock(w) ==
    /\ Running("AnalyzeSubdomains")
    /\ w \in Workers
    /\ wpc[w] = "append"
    /\ results' = Append(results, winfo[w][1])
    /\ mu' = 0
    /\ wpc' = [wpc EXCEPT ![w] = "done"]
    /\ UNCHANGED <<prog, subdomains, Concurrency, mainPc, sent, jobs, jobsClosed,
                   wg, wjob, winfo, semaphore, resultsChan,
                   chanClosed, closerPc, processed, reporterPc, current, ret>>
    /\ UNCHANGED evalVars

\* AS_Done without wg.Done(): the host is never acknowledged
AS_Done_NoAck(w) ==
    /\ Running("AnalyzeSubdomains")
    /\ w \in Workers
    /\ wpc[w] = "done"
    /\ wpc' = [wpc EXCEPT ![w] = "recv"]
    /\ wjob' = [wjob EXCEPT ![w] = ""]
    /\ winfo' = [winfo EXCEPT ![w] = <<>>]
    /\ UNCHANGED <<prog, subdomains, Concurrency, mainPc, sent, jobs, jobsClosed,
                   wg, mu, results, semaphore, resultsChan,
                   chanClosed, closerPc, processed, reporterPc, current, ret>>
    /\ UNCHANGED evalVars

\* line 100: wg.Done(), then back to `range jobs`
AS_Done(w) ==
    /\ Running("AnalyzeSubdomains")
    /\ w \in Workers
    /\ wpc[w] = "done"
    /\ wg' = wg - 1
    /\ wpc' = [wpc EXCEPT ![w] = "recv"]
    /\ wjob' = [wjob EXCEPT ![w] = ""]
    /\ winfo' = [winfo EXCEPT ![w] = <<>>]
    /\ UNCHANGED <<prog, subdomains, Concurrency, mainPc, sent, jobs, jobsClosed,
                   mu, results, semaphore, resultsChan,
                   chanClosed, closerPc, processed, reporterPc, current, ret>>
    /\ UNCHANGED evalVars

AS_Worker ==
    \E w \in Workers :
        \/ AS_Receive(w)
        \/ AS_Exit(w)
        \/ AS_Analyze(w)
        \/ AS_Lock(w)
        \/ AS_AppendUnlock(w)
        \/ AS_Done(w)

AS_Main == AS_Start \/ AS_Spawn \/ AS_Add \/ AS_Send \/ AS_Wait \/ AS_Close \/ AS_SortReturn

AnalyzeSubdomains == AS_Main \/ AS_Worker

InitAnalyze == InitRun("AnalyzeSubdomains", WorldHosts, Budgets)

SpecAnalyze == InitAnalyze /\ [][AnalyzeSubdomains]_vars

---------------------------------------------------------------------------
(* probe.RunProbes.  The goroutine of the i-th domain is goroutine i.      *)

\* lines 223-228: the channels; make(chan struct{}, n) panics for n < 0
RP_Start ==
    /\ Running("RunProbes")
    /\ mainPc = "start"
    /\ mainPc' = IF Concurrency < 0 THEN "fatal" ELSE "add"
    /\ UNCHANGED <<prog, subdomains, Concurrency, sent, jobs, jobsClosed, wg,
                   wpc, wjob, winfo, mu, results, semaphore, resultsChan,
                   chanClosed, closerPc, processed, reporterPc, current, ret>>
    /\ UNCHANGED evalVars

\* lines 231-232: the loop's test and wg.Add(1)
RP_Add ==
    /\ Running("RunProbes")
    /\ mainPc = "add"
    /\ IF sent < Len(subdomains)
       THEN wg' = wg + 1 /\ mainPc' = "go"
       ELSE mainPc' = "closer" /\ UNCHANGED wg
    /\ UNCHANGED <<prog, subdomains, Concurrency, sent, jobs, jobsClosed,
                   wpc, wjob, winfo, mu, results, semaphore, resultsChan,
                   chanClosed, closerPc, processed, reporterPc, current, ret>>
    /\ UNCHANGED evalVars

\* lines 234-267: go func(domain string) { ... }(domain)
RP_Go ==
    /\ Running("RunProbes")
    /\ mainPc = "go"
    /\ wpc' = Append(wpc, "acquire")
    /\ wjob' = Append(wjob, subdomains[sent + 1])
    /\ winfo' = Append(winfo, <<>>)
    /\ sent' = sent + 1
    /\ mainPc' = "add"
    /\ UNCHANGED <<prog, subdomains, Concurrency, jobs, jobsClosed, wg,
                   mu, results, semaphore, resultsChan,
                   chanClosed, closerPc, processed, reporterPc, current, ret>>
    /\ UNCHANGED evalVars

\* lines 271-274: go func() { wg.Wait(); close(resultsChan) }()
RP_GoCloser ==
    /\ Running("RunProbes")
    /\ mainPc = "closer"
    /\ closerPc' = "wait"
    /\ mainPc' = "collect"
    /\ UNCHANGED <<prog, subdomains, Concurrency, sent, jobs, jobsClosed, wg,
                   wpc, wjob, winfo, mu, results, semaphore, resultsChan,
                   chanClosed, processed, reporterPc, current, ret>>
    /\ UNCHANGED evalVars

\* lines 277-279: for result := range resultsChan { results = append(...) }
RP_Collect ==
    /\ Running("RunProbes")
    /\ mainPc = "collect"
    /\ resultsChan # <<>>
    /\ results' = Append(results, Head(resultsChan))
    /\ resultsChan' = Tail(resultsChan)
    /\ UNCHANGED <<prog, subdomains, Concurrency, mainPc, sent, jobs, jobsClosed,
                   wg, wpc, wjob, winfo, mu, semaphore,
                   chanClosed, closerPc, processed, reporterPc, current, ret>>
    /\ UNCHANGED evalVars

\* lines 277, 281: the channel is closed and drained; return results
RP_Return ==
    /\ Running("RunProbes")
    /\ mainPc = "collect"
    /\ resultsChan = <<>>
    /\ chanClosed
    /\ ret' = results
    /\ mainPc' = "returned"
    /\ UNCHANGED <<prog, subdomains, Concurrency, sent, jobs, jobsClosed, wg,
                   wpc, wjob, winfo, mu, results, semaphore, resultsChan,
                   chanClosed, closerPc, processed, reporterPc, current>>
    /\ UNCHANGED evalVars

\* line 272: wg.Wait()
RP_CloserWait ==
    /\ Running("RunProbes")
    /\ closerPc = "wait"
    /\ wg = 0
    /\ closerPc' = "close"
    /\ UNCHANGED <<prog, subdomains, Concurrency, mainPc, sent, jobs, jobsClosed,
                   wg, wpc, wjob, winfo, mu, results, semaphore, resultsChan,
                   chanClosed, processed, reporterPc, current, ret>>
    /\ UNCHANGED evalVars

\* line 273: close(resultsChan)
RP_CloserClose ==
    /\ Running("RunProbes")
    /\ closerPc = "close"
    /\ chanClosed' = TRUE
    /\ closerPc' = "exited"
    /\ UNCHANGED <<prog, subdomains, Concurrency, mainPc, sent, jobs, jobsClosed,
                   wg, wpc, wjob, winfo, mu, results, semaphore, resultsChan,
                   processed, reporterPc, current, ret>>
    /\ UNCHANGED evalVars

\* RP_Acquire with a semaphore one slot too wide
RP_Acquire_OneTooMany(g) ==
    /\ Running("RunProbes")
    /\ g \in Workers
    /\ wpc[g] = "acquire"
    /\ semaphore <= Concurrency
    /\ semaphore' = semaphore + 1
    /\ wpc' = [wpc EXCEPT ![g] = "probe"]
    /\ UNCHANGED <<prog, subdomains, Concurrency, mainPc, sent, jobs, jobsClosed,
                   wg, wjob, winfo, mu, results, resultsChan,
                   chanClosed, closerPc, processed, reporterPc, current, ret>>
    /\ UNCHANGED evalVars

\* line 238: semaphore <- struct{}{}; the channel holds options.Concurrency
\* tokens, and nothing receives from it but the release of line 239
RP_Acquire(g) ==
    /\ Running("RunProbes")
    /\ g \in Workers
    /\ wpc[g] = "acquire"
    /\ semaphore < Concurrency
    /\ semaphore' = semaphore + 1
    /\ wpc' = [wpc EXCEPT ![g] = "probe"]
    /\ UNCHANGED <<prog, subdomains, Concurrency, mainPc, sent, jobs, jobsClosed,
                   wg, wjob, winfo, mu, results, resultsChan,
                   chanClosed, closerPc, processed, reporterPc, current, ret>>
    /\ UNCHANGED evalVars

\* line 242: result := probeDomain(domain, options); a lookup that exhausts
\* the stack ends the process
RP_Probe(g) ==
    /\ Running("RunProbes")
    /\ g \in Workers
    /\ wpc[g] = "probe"
    /\ \E out \in HostProbes[wjob[g]] :
           IF out.overflow
           THEN mainPc' = "fatal" /\ UNCHANGED <<wpc, winfo>>
           ELSE /\ winfo' = [winfo EXCEPT ![g] = <<out.result>>]
                /\ wpc' = [wpc EXCEPT ![g] = "send"]
                /\ UNCHANGED mainPc
    /\ UNCHANGED <<prog, subdomains, Concurrency, sent, jobs, jobsClosed, wg,
                   wjob, mu, results, semaphore, resultsChan,
                   chanClosed, closerPc, processed, reporterPc, current, ret>>
    /\ UNCHANGED evalVars

\* line 243: resultsChan <- result; the buffer holds len(domains) values,
\* and a send on a closed channel panics
RP_Send(g) ==
    /\ Running("RunProbes")
    /\ g \in Workers
    /\ wpc[g] = "send"
    /\ IF chanClosed
       THEN mainPc' = "fatal" /\ UNCHANGED <<resultsChan, wpc>>
       ELSE /\ Len(resultsChan) < Len(subdomains)
            /\ resultsChan' = Append(resultsChan, winfo[g][1])
            /\ wpc' = [wpc EXCEPT ![g] = "release"]
            /\ UNCHANGED mainPc
    /\ UNCHANGED <<prog, subdomains, Concurrency, sent, jobs, jobsClosed, wg,
                   wjob, winfo, mu, results, semaphore,
                   chanClosed, closerPc, processed, reporterPc, current, ret>>
    /\ UNCHANGED evalVars

\* line 239: the deferred <-semaphore
RP_Release(g) ==
    /\ Running("RunProbes")
    /\ g \in Workers
    /\ wpc[g] = "release"
    /\ semaphore > 0
    /\ semaphore' = semaphore - 1
    /\ wpc' = [wpc EXCEPT ![g] = "done"]
    /\ UNCHANGED <<prog, subdomains, Concurrency, mainPc, sent, jobs, jobsClosed,
                   wg, wjob, winfo, mu, results, resultsChan,
                   chanClosed, closerPc, processed, reporterPc, current, ret>>
    /\ UNCHANGED evalVars

\* line 235: the deferred wg.Done()
RP_Done(g) ==
    /\ Running("RunProbes")
    /\ g \in Workers
    /\ wpc[g] = "done"
    /\ wg' = wg - 1
    /\ wpc' = [wpc EXCEPT ![g] = "exited"]
    /\ UNCHANGED <<prog, subdomains, Concurrency, mainPc, sent, jobs, jobsClosed,
                   wjob, winfo, mu, results, semaphore, resultsChan,
                   chanClosed, closerPc, processed, reporterPc, current, ret>>
    /\ UNCHANGED evalVars

RP_Goroutine ==
    \E g \in Workers :
        \/ RP_Acquire(g)
        \/ RP_Probe(g)
        \/ RP_Send(g)
        \/ RP_Release(g)
        \/ RP_Done(g)

RP_Closer == RP_CloserWait \/ RP_CloserClose

RP_Main == RP_Start \/ RP_Add \/ RP_Go \/ RP_GoCloser \/ RP_Collect \/ RP_Return

RunProbes == RP_Main \/ RP_Closer \/ RP_Goroutine

InitProbes == InitRun("RunProbes", WorldHosts, Budgets)

SpecProbes == InitProbes /\ [][RunProbes]_vars

---------------------------------------------------------------------------
(* resolver.ResolveSubdomains *)

\* line 13
maxWorkers == 50

\* lines 18-33: the counters and the two channels
RS_Start ==
    /\ Running("ResolveSubdomains")
    /\ mainPc = "start"
    /\ mainPc' = "reporter"
    /\ UNCHANGED <<prog, subdomains, Concurrency, sent, jobs, jobsClosed, wg,
                   wpc, wjob, winfo, mu, results, semaphore, resultsChan,
                   chanClosed, closerPc, processed, reporterPc, current, ret>>
    /\ UNCHANGED evalVars

\* lines 34-48: go func() { ticker ... }()
RS_GoReporter ==
    /\ Running("ResolveSubdomains")
    /\ mainPc = "reporter"
    /\ reporterPc' = "select"
    /\ mainPc' = "spawn"
    /\ UNCHANGED <<prog, subdomains, Concurrency, sent, jobs, jobsClosed, wg,
                   wpc, wjob, winfo, mu, results, semaphore, resultsChan,
                   chanClosed, closerPc, processed, current, ret>>
    /\ UNCHANGED evalVars

\* lines 51-63: for i := 0; i < maxWorkers; i++ { go func() ... }
RS_Spawn ==
    /\ Running("ResolveSubdomains")
    /\ mainPc = "spawn"
    /\ IF Len(wpc) < maxWorkers
       THEN SpawnWorker /\ UNCHANGED mainPc
       ELSE mainPc' = "add" /\ UNCHANGED <<wpc, wjob, winfo>>
    /\ UNCHANGED <<prog, subdomains, Concurrency, sent, jobs, jobsClosed, wg,
                   mu, results, semaphore, resultsChan, chanClosed, closerPc,
                   processed, reporterPc, current, ret>>
    /\ UNCHANGED evalVars

\* lines 66-67: the dispatch loop's test and wg.Add(1)
RS_Add ==
    /\ Running("ResolveSubdomains")
    /\ mainPc = "add"
    /\ IF sent < Len(subdomains)
       THEN wg' = wg + 1 /\ mainPc' = "send"
       ELSE mainPc' = "wait" /\ UNCHANGED wg
    /\ UNCHANGED <<prog, subdomains, Concurrency, sent, jobs, jobsClosed,
                   wpc, wjob, winfo, mu, results, semaphore, resultsChan,
                   chanClosed, closerPc, processed, reporterPc, current, ret>>
    /\ UNCHANGED evalVars

\* line 68: jobs <- subdomain (the buffer holds len(subdomains) values)
RS_Send ==
    /\ Running("ResolveSubdomains")
    /\ mainPc = "send"
    /\ Len(jobs) < Len(subdomains)
    /\ jobs' = Append(jobs, subdomains[sent + 1])
    /\ sent' = sent + 1
    /\ mainPc' = "add"
    /\ UNCHANGED <<prog, subdomains, Concurrency, jobsClosed, wg, wpc, wjob,
                   winfo, mu, results, semaphore, resultsChan, chanClosed,
                   closerPc, processed, reporterPc, current, ret>>
    /\ UNCHANGED evalVars

\* line 72: wg.Wait()
RS_Wait ==
    /\ Running("ResolveSubdomains")
    /\ mainPc = "wait"
    /\ wg = 0
    /\ mainPc' = "close"
    /\ UNCHANGED <<prog, subdomains, Concurrency, sent, jobs, jobsClosed, wg,
                   wpc, wjob, winfo, mu, results, semaphore, resultsChan,
                   chanClosed, closerPc, processed, reporterPc, current, ret>>
    /\ UNCHANGED evalVars

\* line 73: close(jobs)
RS_Close ==
    /\ Running("ResolveSubdomains")
    /\ mainPc = "close"
    /\ jobsClosed' = TRUE
    /\ mainPc' = "stop"
    /\ UNCHANGED <<prog, subdomains, Concurrency, sent, jobs, wg, wpc, wjob,
                   winfo, mu, results, semaphore, resultsChan, chanClosed,
                   closerPc, processed, reporterPc, current, ret>>
    /\ UNCHANGED evalVars

\* lines 74 and 44-45: stopProgress <- true meets the reporter's receive on
\* the unbuffered channel, and the reporter returns
RS_Stop ==
    /\ Running("ResolveSubdomains")
    /\ mainPc = "stop"
    /\ reporterPc = "select"
    /\ reporterPc' = "exited"
    /\ mainPc' = "return"
    /\ UNCHANGED <<prog, subdomains, Concurrency, sent, jobs, jobsClosed, wg,
                   wpc, wjob, winfo, mu, results, semaphore, resultsChan,
                   chanClosed, closerPc, processed, current, ret>>
    /\ UNCHANGED evalVars

\* lines 76-78: return aliveSubdomains
RS_Return ==
    /\ Running("ResolveSubdomains")
    /\ mainPc = "return"
    /\ ret' = results
    /\ mainPc' = "returned"
    /\ UNCHANGED <<prog, subdomains, Concurrency, sent, jobs, jobsClosed, wg,
                   wpc, wjob, winfo, mu, results, semaphore, resultsChan,
                   chanClosed, closerPc, processed, reporterPc, current>>
    /\ UNCHANGED evalVars

\* lines 40-43: the ticker fires; current := atomic.LoadInt32(&processed)
RS_Tick ==
    /\ Running("ResolveSubdomains")
    /\ reporterPc = "select"
    /\ current' = processed
    /\ UNCHANGED <<prog, subdomains, Concurrency, mainPc, sent, jobs,
                   jobsClosed, wg, wpc, wjob, winfo, mu, results, semaphore,
                   resultsChan, chanClosed, closerPc, processed, reporterPc,
                   ret>>
    /\ UNCHANGED evalVars

\* line 53: for subdomain := range jobs, a value is received
RS_Receive(w) ==
    /\ Running("ResolveSubdomains")
    /\ IsNextReceiver(w)
    /\ jobs # <<>>
    /\ wjob' = [wjob EXCEPT ![w] = Head(jobs)]
    /\ jobs' = Tail(jobs)
    /\ wpc' = [wpc EXCEPT ![w] = "resolve"]
    /\ UNCHANGED <<prog, subdomains, Concurrency, mainPc, sent, jobsClosed,
                   wg, winfo, mu, results, semaphore, resultsChan,
                   chanClosed, closerPc, processed, reporterPc, current, ret>>
    /\ UNCHANGED evalVars

\* line 53: the channel is closed and drained, the worker returns
RS_Exit(w) ==
    /\ Running("ResolveSubdomains")
    /\ IsNextReceiver(w)
    /\ jobs = <<>>
    /\ jobsClosed
    /\ wpc' = [wpc EXCEPT ![w] = "exited"]
    /\ UNCHANGED <<prog, subdomains, Concurrency, mainPc, sent, jobs,
                   jobsClosed, wg, wjob, winfo, mu, results, semaphore,
                   resultsChan, chanClosed, closerPc, processed, reporterPc,
                   current, ret>>
    /\ UNCHANGED evalVars

\* line 54: if isAlive(subdomain)
RS_IsAlive(w) ==
    /\ Running("ResolveSubdomains")
    /\ w \in Workers
    /\ wpc[w] = "resolve"
    /\ ~Blocks(HostNet(wjob[w]))
    /\ wpc' = [wpc EXCEPT ![w] = IF isAlive(HostNet(wjob[w])) THEN "lock" ELSE "count"]
    /\ UNCHANGED <<prog, subdomains, Concurrency, mainPc, sent, jobs,
                   jobsClosed, wg, wjob, winfo, mu, results, semaphore,
                   resultsChan, chanClosed, closerPc, processed, reporterPc,
                   current, ret>>
    /\ UNCHANGED evalVars

\* line 55: mu.Lock()
RS_Lock(w) ==
    /\ Running("ResolveSubdomains")
    /\ w \in Workers
    /\ wpc[w] = "lock"
    /\ mu = 0
    /\ mu' = w
    /\ wpc' = [wpc EXCEPT ![w] = "append"]
    /\ UNCHANGED <<prog, subdomains, Concurrency, mainPc, sent, jobs,
                   jobsClosed, wg, wjob, winfo, results, semaphore,
                   resultsChan, chanClosed, closerPc, processed, reporterPc,
                   current, ret>>
    /\ UNCHANGED evalVars

\* lines 56-57: aliveSubdomains = append(aliveSubdomains, subdomain); mu.Unlock()
RS_AppendUnlock(w) ==
    /\ Running("ResolveSubdomains")
    /\ w \in Workers
    /\ wpc[w] = "append"
    /\ results' = Append(results, wjob[w])
    /\ mu' = 0
    /\ wpc' = [wpc EXCEPT ![w] = "count"]
    /\ UNCHANGED <<prog, subdomains, Concurrency, mainPc, sent, jobs,
                   jobsClosed, wg, wjob, winfo, semaphore, resultsChan,
                   chanClosed, closerPc, processed, reporterPc, current, ret>>
    /\ UNCHANGED evalVars

\* RS_Count that counts the host once per lookup of isAlive
RS_Count_PerLookup(w) ==
    /\ Running("ResolveSubdomains")
    /\ w \in Workers
    /\ wpc[w] = "count"
    /\ processed' = processed + 2
    /\ wpc' = [wpc EXCEPT ![w] = "done"]
    /\ UNCHANGED <<prog, subdomains, Concurrency, mainPc, sent, jobs,
                   jobsClosed, wg, wjob, winfo, mu, results, semaphore,
                   resultsChan, chanClosed, closerPc, reporterPc, current,
                   ret>>
    /\ UNCHANGED evalVars

\* line 59: atomic.AddInt32(&processed, 1)
RS_Count(w) ==
    /\ Running("ResolveSubdomains")
    /\ w \in Workers
    /\ wpc[w] = "count"
    /\ processed' = processed + 1
    /\ wpc' = [wpc EXCEPT ![w] = "done"]
    /\ UNCHANGED <<prog, subdomains, Concurrency, mainPc, sent, jobs,
                   jobsClosed, wg, wjob, winfo, mu, results, semaphore,
                   resultsChan, chanClosed, closerPc, reporterPc, current,
                   ret>>
    /\ UNCHANGED evalVars

\* line 60: wg.Done(), then back to `range jobs`
RS_Done(w) ==
    /\ Running("ResolveSubdomains")
    /\ w \in Workers
    /\ wpc[w] = "done"
    /\ wg' = wg - 1
    /\ wpc' = [wpc EXCEPT ![w] = "recv"]
    /\ wjob' = [wjob EXCEPT ![w] = ""]
    /\ UNCHANGED <<prog, subdomains, Concurrency, mainPc, sent, jobs,
                   jobsClosed, winfo, mu, results, semaphore, resultsChan,
                   chanClosed, closerPc, processed, reporterPc, current, ret>>
    /\ UNCHANGED evalVars

RS_Worker ==
    \E w \in Workers :
        \/ RS_Receive(w)
        \/ RS_Exit(w)
        \/ RS_IsAlive(w)
        \/ RS_Lock(w)
        \/ RS_AppendUnlock(w)
        \/ RS_Count(w)
        \/ RS_Done(w)

RS_Reporter == RS_Tick

RS_Main ==
    \/ RS_Start \/ RS_GoReporter \/ RS_Spawn \/ RS_Add \/ RS_Send
    \/ RS_Wait \/ RS_Close \/ RS_Stop \/ RS_Return

ResolveSubdomains == RS_Main \/ RS_Reporter \/ RS_Worker

\* the pool of ResolveSubdomains is fixed: its budget is maxWorkers
\* isAlive only looks a host's addresses up: for the resolver a host whose
\* aliases loop is one more host without an address
ResolveHosts == {"dead.example.com", "gone.example.com", "cdn.example.com"}

InitResolve == InitRun("ResolveSubdomains", ResolveHosts, {maxWorkers})

SpecResolve == InitResolve /\ [][ResolveSubdomains]_vars

\* ResolveSubdomains on hosts whose resolver may never answer, under fair
\* scheduling of the main goroutine and the workers
SilentHosts ==
    {"mute.example.com", "late.example.com", "good.example.com", "dead.example.com"}

InitSilent == InitRun("ResolveSubdomains", SilentHosts, {maxWorkers})

SpecSilent ==
    /\ InitSilent
    /\ [][ResolveSubdomains]_vars
    /\ WF_vars(RS_Main \/ RS_Worker)

---------------------------------------------------------------------------
(* The scheduler specification: a run of any of the three entry points.    *)

Init == InitAnalyze \/ InitProbes \/ InitResolve

Next == AnalyzeSubdomains \/ RunProbes \/ ResolveSubdomains

Spec == Init /\ [][Next]_vars

---------------------------------------------------------------------------
(* Single calls of lookupCNAME over every DNS of three names.  An answer   *)
(* is an error, no record, or a name with or without the root dot.         *)

LookupNames == {"a.test", "b.test", "c.test"}

LookupAnswers ==
    {DNSError, Answer("")}
        \cup {Answer(n) : n \in LookupNames}
        \cup {Answer(n \o ".") : n \in LookupNames}

InitLookup ==
    /\ InitCall("lookupCNAME")
    /\ net \in {[domain |-> d, dns |-> f] :
                   d \in LookupNames, f \in [LookupNames -> LookupAnswers]}

\* cnames, err := lookupCNAME(domain)
LookupCall ==
    /\ prog = "lookupCNAME"
    /\ evalOut = NoEval
    /\ evalOut' = [kind |-> "lookupCNAME",
                   out  |-> lookupCNAME(net.dns, net.domain, 1)]
    /\ UNCHANGED <<schedVars, net>>

SpecLookup == InitLookup /\ [][LookupCall]_vars

---------------------------------------------------------------------------
(* Single evaluations of one host by probeDomain and by analyzeSubdomain,  *)
(* over the networks the host may see.                                     *)

ProbeHost == "app.example.com"

HttpsExchanges ==
    {NoResponse,
     Response(200, 5000, "<html>welcome</html>", "valid"),
     Response(403, 243, "AccessDenied", "invalid"),
     Response(301, 0 - 1, "", "none")}

HttpExchanges ==
    {NoResponse,
     Response(200, 204800, "<html>plain</html>", "none"),
     Response(500, 0, "", "none")}

ProbeDNS ==
    {[n \in {} |-> DNSError],
     [n \in {ProbeHost} |-> Answer(ProbeHost \o ".")],
     [n \in {ProbeHost, "app.herokuapp.com"} |-> Answer("app.herokuapp.com.")],
     [n \in {ProbeHost, "d1.cloudfront.net", "b.s3.amazonaws.com"} |->
         CASE n = ProbeHost -> Answer("d1.cloudfront.net.")
           [] n = "d1.cloudfront.net" -> Answer("b.s3.amazonaws.com.")
           [] OTHER -> Answer("b.s3.amazonaws.com.")],
     [n \in {ProbeHost, "x.example.com"} |->
         IF n = ProbeHost THEN Answer("x.example.com.") ELSE Answer(ProbeHost)]}

ProbeNets ==
    {[domain |-> ProbeHost, urlOk |-> TRUE, https |-> hs, http |-> hp, dns |-> d,
      web |-> NoWeb] :
        hs \in HttpsExchanges, hp \in HttpExchanges, d \in ProbeDNS}
    \cup
    {[domain |-> ProbeHost, urlOk |-> FALSE, https |-> NoResponse,
      http |-> NoResponse, dns |-> d, web |-> NoWeb] : d \in ProbeDNS}

InitProbe ==
    /\ InitCall("probe")
    /\ net \in ProbeNets

\* result := probeDomain(domain, options)
ProbeDomainCall ==
    /\ prog = "probe"
    /\ evalOut = NoEval
    /\ \E o \in ProbeOutcomes(net.domain, net) :
          evalOut' = [kind |-> "probeDomain", out |-> o]
    /\ UNCHANGED <<schedVars, net>>

\* info := analyzeSubdomain(subdomain, options)
AnalyzeSubdomainCall ==
    /\ prog = "probe"
    /\ evalOut = NoEval
    /\ \E o \in AnalyzeOutcomes(net.domain, net) :
          evalOut' = [kind |-> "analyzeSubdomain", out |-> o]
    /\ UNCHANGED <<schedVars, net>>

SpecProbe == InitProbe /\ [][ProbeDomainCall \/ AnalyzeSubdomainCall]_vars

---------------------------------------------------------------------------
(* probeDomain statement by statement on one host, over networks that      *)
(* exercise every stage.  evalOut holds the locals of the call: the        *)
(* position pc, the loop index i, result, body, whether resp is non-nil,   *)
(* the alias chain and the network calls made so far.                      *)

PipelineExchanges ==
    {NoResponse,
     Response(200, 2048, "<html>welcome</html>", "valid"),
     Response(200, 20, "Heroku | No such app", "valid"),
     Response(404, 38, "NoSuchBucket 404 Not Found No such app", "valid"),
     Response(200, 120,
         "<ListBucketResult><Contents><Key>a.txt</Key></Contents>"
             \o "<Contents><Key>b.txt</Key></Contents></ListBucketResult>", "valid"),
     Response(200, 60, "<ListBucketResult><Key>a.txt</Key> AccessDenied NoSuchBucket",
              "valid"),
     Response(200, 300,
         "<ListBucketResult><Contents><Key>k1</Key></Contents>"
             \o "<Contents><Key>k2</Key></Contents><Contents><Key>k3</Key></Contents>"
             \o "<Contents><Key>k4</Key></Contents><Contents><Key>k5</Key></Contents>"
             \o "<Contents><Key>k6</Key></Contents></ListBucketResult>", "valid"),
     Response(403, 25, "AccessDenied NoSuchBucket", "valid")}

ManyProviders == "s3.amazonaws.com.ghost.io.digitalocean.com.netlify.app.herokuapp.com"

PipelineDNS ==
    {[n \in {} |-> DNSError],
     [n \in {ProbeHost} |-> Answer("app.herokuapp.com.")],
     [n \in {ProbeHost, "edge.example.net"} |->
         IF n = ProbeHost THEN Answer("edge.example.net.")
         ELSE Answer("app.herokuapp.com.")],
     [n \in {ProbeHost} |-> Answer("b.s3.amazonaws.com.")]}

\* the aliases of the host name five providers at once
CrowdedDNS == [n \in {ProbeHost} |-> Answer(ManyProviders \o ".")]

\* every path of the table from the second on answers 200 with its first
\* fingerprint
AllFilesExposed ==
    [u \in {FileURL(ProbeHost, i) : i \in 2..Len(sensitiveFilePaths)} |->
        LET i == CHOOSE k \in 2..Len(sensitiveFilePaths) : FileURL(ProbeHost, k) = u
        IN  Page(200, "x " \o sensitiveFilePaths[i].contentSigs[1] \o " y", "")]

FileWebs ==
    {NoWeb,
     FileURL(ProbeHost, 2) :> Page(200, "DB_PASSWORD=x SECRET=y", ""),
     (FileURL(ProbeHost, 2) :> Page(404, "DB_PASSWORD=x", ""))
         @@ (FileURL(ProbeHost, 3) :> Page(200, "nothing to see", "")),
     FileURL(ProbeHost, 1) :> Page(200, "API_KEY=1", ""),
     AllFilesExposed}

RedirectWebs ==
    {NoWeb,
     (TestURL(ProbeHost, 2) :> Page(302, "", "https://evil.com"))
         @@ (TestURL(ProbeHost, 8) :> Page(301, "", "https://evil.com/")),
     (TestURL(ProbeHost, 1) :> Page(200, "", "https://evil.com"))
         @@ (TestURL(ProbeHost, 3) :> Page(302, "", "https://app.example.com/home"))
         @@ (TestURL(ProbeHost, 5) :> Page(307, "", "//evil.com/path")),
     TestURL(ProbeHost, 1) :> Page(500, "", "")}

PipelineNets ==
    {[domain |-> ProbeHost, urlOk |-> TRUE, https |-> hs, http |-> NoResponse,
      dns |-> d, web |-> f @@ r] :
        hs \in PipelineExchanges, d \in PipelineDNS, f \in FileWebs, r \in RedirectWebs}
    \cup
    {[domain |-> ProbeHost, urlOk |-> TRUE, https |-> hs, http |-> NoResponse,
      dns |-> CrowdedDNS, web |-> f] :
        hs \in PipelineExchanges, f \in {NoWeb, AllFilesExposed}}

InitPipeline ==
    /\ InitCall("probeDomain")
    /\ net \in PipelineNets

Locals(pc, i, result, body, resp, chain, calls) ==
    [kind |-> "locals", pc |-> pc, i |-> i, result |-> result, body |-> body,
     resp |-> resp, chain |-> chain, calls |-> calls]

At(pc) == prog = "probeDomain" /\ evalOut # NoEval /\ evalOut.pc = pc

\* lines 286-342
PD_InitialProbe ==
    /\ prog = "probeDomain"
    /\ evalOut = NoEval
    /\ LET probed == InitialProbe(NewProbeResult(net.domain), net)
       IN  evalOut' = Locals(IF probed.early THEN "returned" ELSE "cname", 0,
                             probed.result, probed.body, probed.resp, <<>>,
                             probed.calls)
    /\ UNCHANGED <<schedVars, net>>

\* lines 345-348
PD_LookupCNAME ==
    /\ At("cname")
    /\ LET chain == lookupCNAME(net.dns, net.domain, 1)
       IN  evalOut' = [evalOut EXCEPT
                          !.pc = IF chain.overflow THEN "fatal" ELSE "takeover",
                          !.result = ProbeCNAME(@, chain),
                          !.chain = chain.cnames,
                          !.calls = Append(@, CnameQuery(net.domain))]
    /\ UNCHANGED <<schedVars, net>>

\* lines 351-370
PD_Takeover ==
    /\ At("takeover")
    /\ \E order \in TakeoverOrders(evalOut.result.CNAME) :
          evalOut' = [evalOut EXCEPT
                         !.pc = "s3",
                         !.result = TakeoverStage(@, evalOut.body, evalOut.resp, order)]
    /\ UNCHANGED <<schedVars, net>>

\* lines 373-408
PD_S3 ==
    /\ At("s3")
    /\ evalOut' = [evalOut EXCEPT
                      !.pc = "files", !.i = 1,
                      !.result = S3Stage(@, evalOut.body, evalOut.resp)]
    /\ UNCHANGED <<schedVars, net>>

\* lines 411-415: the file loop ends, at the end of the table or at the break
PD_FilesEnd ==
    /\ At("files")
    /\ \/ evalOut.i > Len(sensitiveFilePaths)
       \/ Len(evalOut.result.Vulnerabilities) >= 5
    /\ evalOut' = [evalOut EXCEPT !.pc = "redirects", !.i = 1]
    /\ UNCHANGED <<schedVars, net>>

\* PD_File that returns the result when the request fails, as the initial
\* probe does, instead of going on with the next path
PD_File_ReturnOnError ==
    /\ At("files")
    /\ evalOut.i <= Len(sensitiveFilePaths)
    /\ Len(evalOut.result.Vulnerabilities) < 5
    /\ evalOut' = [evalOut EXCEPT
                      !.pc = IF Fetch(net, FileURL(net.domain, evalOut.i)).ok
                             THEN "files" ELSE "returned",
                      !.i = @ + 1,
                      !.result = FileCheck(@, net.domain, net, evalOut.i),
                      !.calls = Append(@, FileURL(net.domain, evalOut.i))]
    /\ UNCHANGED <<schedVars, net>>

\* lines 417-447: one iteration of the file loop
PD_File ==
    /\ At("files")
    /\ evalOut.i <= Len(sensitiveFilePaths)
    /\ Len(evalOut.result.Vulnerabilities) < 5
    /\ evalOut' = [evalOut EXCEPT
                      !.i = @ + 1,
                      !.result = FileCheck(@, net.domain, net, evalOut.i),
                      !.calls = Append(@, FileURL(net.domain, evalOut.i))]
    /\ UNCHANGED <<schedVars, net>>

\* lines 451-460 and 491: the redirect loop ends and the result is returned
PD_Return ==
    /\ At("redirects")
    /\ \/ evalOut.i > Len(openRedirectPatterns)
       \/ evalOut.result.OpenRedirect
       \/ Len(evalOut.result.Vulnerabilities) >= 5
    /\ evalOut' = [evalOut EXCEPT !.pc = "returned"]
    /\ UNCHANGED <<schedVars, net>>

\* PD_Redirect without the test of the budget
PD_Redirect_NoBudget ==
    /\ At("redirects")
    /\ evalOut.i <= Len(openRedirectPatterns)
    /\ ~evalOut.result.OpenRedirect
    /\ evalOut' = [evalOut EXCEPT
                      !.i = @ + 1,
                      !.result = RedirectCheck(@, net.domain, net, evalOut.i),
                      !.calls = Append(@, TestURL(net.domain, evalOut.i))]
    /\ UNCHANGED <<schedVars, net>>

\* lines 463-488: one iteration of the redirect loop
PD_Redirect ==
    /\ At("redirects")
    /\ evalOut.i <= Len(openRedirectPatterns)
    /\ ~evalOut.result.OpenRedirect
    /\ Len(evalOut.result.Vulnerabilities) < 5
    /\ evalOut' = [evalOut EXCEPT
                      !.i = @ + 1,
                      !.result = RedirectCheck(@, net.domain, net, evalOut.i),
                      !.calls = Append(@, TestURL(net.domain, evalOut.i))]
    /\ UNCHANGED <<schedVars, net>>

ProbeDomainSteps ==
    \/ PD_InitialProbe
    \/ PD_LookupCNAME
    \/ PD_Takeover
    \/ PD_S3
    \/ PD_File
    \/ PD_FilesEnd
    \/ PD_Redirect
    \/ PD_Return

SpecPipeline == InitPipeline /\ [][ProbeDomainSteps]_vars

---------------------------------------------------------------------------
(* The command: rootCmd.Run.  net holds the flags and what the run finds   *)
(* outside: the wordlist file (readable or not, its lines), the passive    *)
(* sources' answer, the expander's words, the hosts that have an address   *)
(* and whether the output file can be written.  The enumeration sources,   *)
(* the three engines and the formatters are taken at their interface: the  *)
(* command's calls are listed in calls, in order.  evalOut holds the       *)
(* locals of the run; exit is the process's exit code, -1 while it runs.   *)

\* enumeration.BruteForce, active.go lines 11-37
RECURSIVE BruteForceLines(_, _)
BruteForceLines(domain, lines) ==
    IF lines = <<>> THEN <<>>
    ELSE LET word == TrimSpace(Head(lines))
         IN  IF word = "" \/ HasPrefix(word, "#")
             THEN BruteForceLines(domain, Tail(lines))
             ELSE <<word \o "." \o domain>> \o BruteForceLines(domain, Tail(lines))

\* a file that cannot be opened gives the empty list (lines 14-18)
BruteForce(domain, file) ==
    IF ~file.ok THEN <<>> ELSE BruteForceLines(domain, file.lines)

\* root.go lines 93-97: a word of the expander without dot is a prefix
RECURSIVE ExpandedHosts(_, _)
ExpandedHosts(domain, words) ==
    IF words = <<>> THEN <<>>
    ELSE <<IF ~Contains(Head(words), ".")
           THEN Head(words) \o "." \o domain ELSE Head(words)>>
         \o ExpandedHosts(domain, Tail(words))

\* Deduplicate that compares and keeps the candidates as they are spelled
RECURSIVE Deduplicate_CaseKept(_, _)
Deduplicate_CaseKept(list, unique) ==
    IF list = <<>> THEN unique
    ELSE LET subdomain == TrimSpace(Head(list))
         IN  IF subdomain # "" /\ \A k \in DOMAIN unique : unique[k] # subdomain
             THEN Deduplicate_CaseKept(Tail(list), Append(unique, subdomain))
             ELSE Deduplicate_CaseKept(Tail(list), unique)

\* root.go lines 116-126
RECURSIVE Deduplicate(_, _)
Deduplicate(list, unique) ==
    IF list = <<>> THEN unique
    ELSE LET subdomain == ToLower(TrimSpace(Head(list)))
         IN  IF subdomain # "" /\ \A k \in DOMAIN unique : unique[k] # subdomain
             THEN Deduplicate(Tail(list), Append(unique, subdomain))
             ELSE Deduplicate(Tail(list), unique)

\* formatter.IsValidFormat
IsValidFormat(format) == format \in {"plain", "json", "csv", "html", "markdown"}

WordlistFiles ==
    [path : {""}, ok : {FALSE}, lines : {<<>>}]
    \cup [path : {"words.txt"}, ok : {TRUE}, lines : {<<" www ", "", "#old", "API">>}]
    \cup [path : {"missing.txt"}, ok : {FALSE}, lines : {<<>>}]

RunConfigs ==
    [domain          : {"", "example.com"},
     outputFormat    : {"", "plain", "json", "xml"},
     outputFile      : {"", "out.txt"},
     writeOk         : BOOLEAN,
     passiveOnly     : BOOLEAN,
     activeOnly      : BOOLEAN,
     smartBruteforce : BOOLEAN,
     enableScoring   : BOOLEAN,
     enableProbe     : BOOLEAN,
     wordlist        : WordlistFiles,
     passive         : {<<>>, <<"www.example.com", " Mail.example.com ", "  ",
                                "WWW.example.com">>},
     expanded        : {<<"dev", "www.example.com">>},
     alive           : {{"www.example.com", "api.example.com"}}]

RunLocals(pc, exit) ==
    [kind |-> "run", pc |-> pc, exit |-> exit,
     passiveResults |-> <<>>, subdomains |-> <<>>,
     uniqueSubdomains |-> <<>>, aliveSubdomains |-> <<>>,
     enableScoring |-> net.enableScoring, probeResults |-> <<>>, results |-> <<>>,
     calls |-> <<>>, stdout |-> "none", file |-> "none"]

InitCommand ==
    /\ InitCall("Run")
    /\ net \in RunConfigs

InRun(pc) == prog = "Run" /\ evalOut # NoEval /\ evalOut.pc = pc

\* root.go lines 45-128: the checks of the flags, the enumeration and the
\* deduplication
Run_Enumerate ==
    /\ prog = "Run"
    /\ evalOut = NoEval
    /\ IF \/ net.domain = ""
          \/ net.outputFormat # "" /\ ~IsValidFormat(net.outputFormat)
       THEN evalOut' = RunLocals("exited", 1)
       ELSE LET passiveResults ==
                    IF ~net.activeOnly THEN net.passive ELSE <<>>
                smart == /\ ~net.passiveOnly
                         /\ net.smartBruteforce
                         /\ Len(passiveResults) > 0
                brute == /\ ~net.passiveOnly
                         /\ net.wordlist.path # ""
                wordlistSubdomains ==
                    (IF smart THEN ExpandedHosts(net.domain, net.expanded) ELSE <<>>)
                    \o (IF brute THEN BruteForce(net.domain, net.wordlist) ELSE <<>>)
                candidates == passiveResults \o wordlistSubdomains
            IN  evalOut' =
                    [RunLocals("resolve", 0 - 1) EXCEPT
                        !.passiveResults = passiveResults,
                        !.subdomains = candidates,
                        !.uniqueSubdomains = Deduplicate(candidates, <<>>),
                        !.calls = (IF ~net.activeOnly THEN <<"FetchPassive">> ELSE <<>>)
                                  \o (IF smart THEN <<"ExpandWordlist">> ELSE <<>>)
                                  \o (IF brute THEN <<"BruteForce">> ELSE <<>>)]
    /\ UNCHANGED <<schedVars, net>>

\* root.go lines 130-137: the resolution (the hosts that have an address, in
\* any order) and the scoring implied by the format
Run_Resolve ==
    /\ InRun("resolve")
    /\ \E alive \in Perms({h \in {evalOut.uniqueSubdomains[k] :
                                       k \in DOMAIN evalOut.uniqueSubdomains} :
                               h \in net.alive}) :
          evalOut' = [evalOut EXCEPT
                         !.pc = "probe",
                         !.aliveSubdomains = alive,
                         !.enableScoring =
                             \/ @
                             \/ net.outputFormat # "" /\ net.outputFormat # "plain",
                         !.calls = Append(@, "ResolveSubdomains")]
    /\ UNCHANGED <<schedVars, net>>

\* root.go lines 139-179: the probes and the file of their results
Run_Probe ==
    /\ InRun("probe")
    /\ IF net.enableProbe /\ Len(evalOut.aliveSubdomains) > 0
       THEN evalOut' = [evalOut EXCEPT
                           !.pc = "score",
                           !.probeResults = evalOut.aliveSubdomains,
                           !.calls = Append(@, "RunProbes"),
                           !.stdout = "probes",
                           !.file = IF net.outputFile # "" /\ net.writeOk
                                    THEN "probes" ELSE @]
       ELSE evalOut' = [evalOut EXCEPT !.pc = "score"]
    /\ UNCHANGED <<schedVars, net>>

\* root.go lines 181-239: the analysis, or the plain list
Run_Score ==
    /\ InRun("score")
    /\ IF /\ evalOut.enableScoring
          /\ Len(evalOut.aliveSubdomains) > 0
          /\ ~net.enableProbe
       THEN LET scored == [evalOut EXCEPT
                              !.results = evalOut.aliveSubdomains,
                              !.calls = Append(@, "AnalyzeSubdomains")]
            IN  IF net.outputFormat # "" /\ net.outputFile # "" /\ ~net.writeOk
                THEN evalOut' = [scored EXCEPT !.pc = "exited", !.exit = 1]
                ELSE evalOut' = [scored EXCEPT
                                    !.pc = "exited", !.exit = 0,
                                    !.stdout = IF net.outputFormat # ""
                                                  /\ net.outputFile # ""
                                               THEN @ ELSE "scores",
                                    !.file = IF net.outputFile # "" /\ net.writeOk
                                             THEN "scores" ELSE @]
       ELSE IF ~net.enableProbe
       THEN IF net.outputFormat # "" /\ net.outputFormat # "plain"
            THEN evalOut' = [evalOut EXCEPT !.pc = "exited", !.exit = 1]
            ELSE evalOut' = [evalOut EXCEPT
                                !.pc = "exited", !.exit = 0,
                                !.stdout = "hosts",
                                !.file = IF net.outputFile # "" /\ net.writeOk
                                         THEN "hosts" ELSE @]
       ELSE evalOut' = [evalOut EXCEPT !.pc = "exited", !.exit = 0]
    /\ UNCHANGED <<schedVars, net>>

Run == Run_Enumerate \/ Run_Resolve \/ Run_Probe \/ Run_Score

SpecCommand == InitCommand /\ [][Run]_vars

---------------------------------------------------------------------------
(* Single calls of analyzeSubdomain over answers of every status class,    *)
(* with valid and expired certificates and with content lengths on both    *)
(* sides of 100 KiB (Go reports -1 for an unknown length).                 *)

ScoreStatuses == {101, 200, 204, 299, 300, 399, 400, 403, 404, 499, 500, 503, 599}

ScoreLengths == {0 - 1, 0, 1, 1023, 1024, 102400, 102401, 103423, 103424, 204800}

ScoreDNS ==
    {[n \in {} |-> DNSError],
     [n \in {ProbeHost} |-> Answer("d1.cloudfront.net.")]}

ScoreNets ==
    {[domain |-> ProbeHost, urlOk |-> TRUE, https |-> Response(st, len, "", crt),
      http |-> NoResponse, dns |-> d, web |-> NoWeb] :
        st \in ScoreStatuses, len \in ScoreLengths, crt \in {"valid", "invalid"},
        d \in ScoreDNS}
    \cup
    {[domain |-> ProbeHost, urlOk |-> TRUE, https |-> NoResponse,
      http |-> Response(st, len, "", "none"), dns |-> d, web |-> NoWeb] :
        st \in ScoreStatuses, len \in {0, 102400, 102401, 204800}, d \in ScoreDNS}
    \cup
    {[domain |-> ProbeHost, urlOk |-> TRUE, https |-> NoResponse,
      http |-> NoResponse, dns |-> d, web |-> NoWeb] : d \in ScoreDNS}

InitScore ==
    /\ InitCall("analyzeSubdomain")
    /\ net \in ScoreNets

\* info := analyzeSubdomain(subdomain, options)
ScoreCall ==
    /\ prog = "analyzeSubdomain"
    /\ evalOut = NoEval
    /\ \E o \in AnalyzeOutcomes(net.domain, net) :
          evalOut' = [kind |-> "analyzeSubdomain", out |-> o]
    /\ UNCHANGED <<schedVars, net>>

SpecScore == InitScore /\ [][ScoreCall]_vars

---------------------------------------------------------------------------
(* The two worker pools under fair scheduling: a goroutine that can take a *)
(* step eventually does.  The ticker of the progress reporter is not       *)
(* required to fire.                                                       *)

PoolNext == AnalyzeSubdomains \/ ResolveSubdomains

FairSpec ==
    /\ InitAnalyze \/ InitResolve
    /\ [][PoolNext]_vars
    /\ WF_vars(AnalyzeSubdomains)
    /\ WF_vars(RS_Main \/ RS_Worker)

---------------------------------------------------------------------------
(* Vocabulary of the properties. *)

Returned(p) == prog = p /\ mainPc = "returned"

\* the host a result is about
ResultHost(r) == IF prog = "RunProbes" THEN r.Domain ELSE r.Subdomain

\* how often x occurs in the sequence q
Count(q, x) == Cardinality({k \in DOMAIN q : q[k] = x})

IsPermutation(a, b) ==
    /\ Len(a) = Len(b)
    /\ \A i \in DOMAIN a : Count(a, a[i]) = Count(b, a[i])

\* nothing answers for the host: both requests fail and it has no record
AllFail(h) ==
    /\ ~HostNet(h).https.ok
    /\ ~HostNet(h).http.ok
    /\ LookupCNAME(HostNet(h).dns, h).err

\* hosts being evaluated: calls of analyzeSubdomain, probeDomain or isAlive
\* that have started and not returned
InProgress ==
    Cardinality({w \in Workers : wpc[w] \in {"analyze", "probe", "resolve"}})

Budget == IF Concurrency > 0 THEN Concurrency ELSE 0

\* the evaluation of every input host returns
EvaluationsTerminate ==
    \A i \in DOMAIN subdomains :
        \A out \in HostAnalyses[subdomains[i]] : ~out.overflow

AllWorkersExited == \A w \in Workers : wpc[w] = "exited"

\* position of host h in the input list
InputIndex(h) == CHOOSE i \in DOMAIN subdomains : subdomains[i] = h

Descending(r) ==
    \A i \in DOMAIN r : \A j \in DOMAIN r : i < j => r[i].Score >= r[j].Score

\* the elements of the finite set of integers S in increasing order
RECURSIVE Ascending(_)
Ascending(S) ==
    IF S = {} THEN <<>>
    ELSE LET m == CHOOSE x \in S : \A y \in S : x <= y
         IN  <<m>> \o Ascending(S \ {m})

\* the result of analyzeSubdomain when the map is iterated in table order
TableOrderInfo(h) ==
    analyzeSubdomain(h, HostNet(h),
        Ascending(MatchedPatterns(lookupCNAME(HostNet(h).dns, h, 1).cnames))).info

\* what two runs are compared on: host, status, score and tags
Observed(info) ==
    [Subdomain  |-> info.Subdomain,
     HTTPStatus |-> info.HTTPStatus,
     Score      |-> info.Score,
     Tags       |-> info.Tags]

---------------------------------------------------------------------------
(* Properties of the scheduler runs (Spec, FairSpec). *)

\* C1: for every input list and a budget of at least 1, AnalyzeSubdomains
\* and RunProbes return exactly one result for every input host: the run is
\* not killed before it returns, and the returned list misses no host and
\* duplicates none, also when nothing answers for any host.
C1_OneResultPerHost ==
    (prog \in {"AnalyzeSubdomains", "RunProbes"} /\ Concurrency >= 1) =>
        /\ mainPc # "fatal"
        /\ mainPc = "returned" =>
              /\ Len(ret) = Len(subdomains)
              /\ \A i \in DOMAIN subdomains :
                    Cardinality({k \in DOMAIN ret :
                                    ResultHost(ret[k]) = subdomains[i]}) = 1

\* C2: at every moment the number of hosts being evaluated is at most the
\* budget (options.Concurrency, or maxWorkers in ResolveSubdomains), and a
\* worker pool never holds more workers than the budget.
C2_BoundedConcurrency ==
    (prog \in {"AnalyzeSubdomains", "RunProbes", "ResolveSubdomains"}) =>
        /\ InProgress <= Budget
        /\ prog # "RunProbes" => Len(wpc) <= Budget
        /\ prog = "ResolveSubdomains" => Budget = 50

\* RunProbes with budget 1: one probe is running while another goroutine
\* waits for the semaphore
C2_Witness ==
    /\ prog = "RunProbes"
    /\ Concurrency = 1
    /\ InProgress = 1
    /\ \E g \in Workers : wpc[g] = "acquire"

\* C3: with a budget of at least 1 and every evaluation returning,
\* AnalyzeSubdomains and ResolveSubdomains eventually return; they have
\* returned only when every host was dispatched and acknowledged (the
\* WaitGroup counter is 0); and once the jobs channel is closed every worker
\* exits, as does the progress reporter of ResolveSubdomains.
C3_Completion ==
    /\ (/\ prog \in {"AnalyzeSubdomains", "ResolveSubdomains"}
        /\ Concurrency >= 1
        /\ EvaluationsTerminate)
          => <>(mainPc = "returned")
    /\ [](((Returned("AnalyzeSubdomains") \/ Returned("ResolveSubdomains")))
            => (wg = 0 /\ sent = Len(subdomains) /\ jobs = <<>>
                /\ InProgress = 0))
    /\ [](((prog \in {"AnalyzeSubdomains", "ResolveSubdomains"}) /\ jobsClosed)
            => <>(/\ AllWorkersExited
                  /\ prog = "ResolveSubdomains" => reporterPc = "exited"))

\* ResolveSubdomains has returned for three hosts, every worker and the
\* reporter have exited
C3_Witness ==
    /\ Returned("ResolveSubdomains")
    /\ Len(subdomains) = 3
    /\ Len(wpc) = 50
    /\ AllWorkersExited
    /\ reporterPc = "exited"
    /\ processed = 3

\* C4: with a budget below 1 no host is dispatched: nothing is added to the
\* WaitGroup, nothing is sent on the jobs channel and no per-host goroutine
\* is started.
C4_NoDispatchOnInvalidBudget ==
    (prog \in {"AnalyzeSubdomains", "RunProbes"} /\ Concurrency < 1) =>
        (wg = 0 /\ jobs = <<>> /\ sent = 0 /\ wpc = <<>>)

\* C5: on the same hosts and network, the results AnalyzeSubdomains returns
\* with the largest budget are, as an unordered collection of (host, status,
\* score, tags), those of the run with budget 1 that visits the patterns in
\* table order.
C5_SameResultsForEveryBudget ==
    (Returned("AnalyzeSubdomains") /\ Concurrency = MaxConc) =>
        IsPermutation([k \in DOMAIN ret |-> Observed(ret[k])],
                      [i \in DOMAIN subdomains |->
                          Observed(TableOrderInfo(subdomains[i]))])

\* C6: the step that sorts and returns is taken only when all work has
\* completed, and the list it returns is a permutation of the collected
\* results in non-increasing score order.
C6_SortedAfterWork ==
    [][(prog = "AnalyzeSubdomains" /\ mainPc = "sort" /\ mainPc' = "returned") =>
          /\ IsPermutation(results, ret')
          /\ Descending(ret')
          /\ Len(results) = Len(subdomains)
          /\ wg = 0
          /\ InProgress = 0
          /\ \A w \in Workers : wpc[w] \in {"recv", "exited"}]_vars

\* AnalyzeSubdomains returned three results, and the host that was last in
\* the input, of a higher score than the others, is first
C6_Witness ==
    /\ Returned("AnalyzeSubdomains")
    /\ Concurrency = 2
    /\ Len(ret) = 3
    /\ ret[1].Subdomain = subdomains[3]
    /\ ret[1].Score > ret[3].Score

\* C7: results of equal score are returned in the order of the input list.
C7_TiesInDiscoveryOrder ==
    Returned("AnalyzeSubdomains") =>
        \A i \in DOMAIN ret : \A j \in DOMAIN ret :
            (i < j /\ ret[i].Score = ret[j].Score) =>
                InputIndex(ret[i].Subdomain) < InputIndex(ret[j].Subdomain)

---------------------------------------------------------------------------
(* Properties of single lookups (SpecLookup). *)

LookupDone == evalOut # NoEval /\ evalOut.kind = "lookupCNAME"

\* the name the DNS gives for n, without the root dot
Target(dns, n) == TrimSuffix(LookupCNAME(dns, n).name, ".")

HasRecord(dns, n) == ~LookupCNAME(dns, n).err /\ LookupCNAME(dns, n).name # ""

\* the records of the looked-up name form a cycle through three names
ThreeCycle ==
    LET a == net.domain
        b == Target(net.dns, a)
        c == Target(net.dns, b)
    IN  /\ HasRecord(net.dns, a) /\ b # a
        /\ HasRecord(net.dns, b) /\ c \notin {a, b}
        /\ HasRecord(net.dns, c) /\ Target(net.dns, c) = a

NoRepeatedHop(cnames) ==
    \A i \in DOMAIN cnames : \A j \in DOMAIN cnames :
        i # j => cnames[i] # cnames[j]

\* C8: on a name whose records form the cycle A -> B -> C -> A, lookupCNAME
\* returns, and what it returns is a chain of three hops.
C8_CycleTerminates ==
    (LookupDone /\ ThreeCycle) =>
        (~evalOut.out.overflow /\ Len(evalOut.out.cnames) = 3)

\* C9: every chain lookupCNAME returns, whatever the DNS, has no repeated
\* hop and is no longer than the number of names the DNS knows.
C9_ChainCycleFree ==
    (LookupDone /\ ~evalOut.out.overflow) =>
        /\ NoRepeatedHop(evalOut.out.cnames)
        /\ Len(evalOut.out.cnames) <= Cardinality(LookupNames)

---------------------------------------------------------------------------
(* Properties of single evaluations (SpecProbe). *)

EvalDone == evalOut # NoEval /\ evalOut.kind \in {"probeDomain", "analyzeSubdomain"}

\* the HTTP requests the initial probe issued, in order: the calls made
\* before the alias lookup
Requests ==
    LET calls == evalOut.out.calls
        at    == {k \in DOMAIN calls : calls[k] = CnameQuery(net.domain)}
    IN  IF at = {} THEN calls
        ELSE SubSeq(calls, 1, (CHOOSE k \in at : \A m \in at : k <= m) - 1)

\* the status, content length and body the evaluation recorded
\* (analyzeSubdomain keeps no body)
Recorded ==
    IF evalOut.kind = "probeDomain"
    THEN [status |-> evalOut.out.result.HTTPStatus,
          length |-> evalOut.out.result.ContentLength,
          body   |-> evalOut.out.body]
    ELSE [status |-> evalOut.out.info.HTTPStatus,
          length |-> evalOut.out.info.ContentLength,
          body   |-> ""]

\* what recording the response resp gives
From(resp) ==
    [status |-> resp.status,
     length |-> resp.length,
     body   |-> IF evalOut.kind = "probeDomain"
                THEN LimitRead(resp.body, 10 * 1024) ELSE ""]

Nothing == [status |-> 0, length |-> 0, body |-> ""]

\* the evaluation went on after the initial probe: it looked the aliases up
WentOn ==
    /\ \E k \in DOMAIN evalOut.out.calls :
          evalOut.out.calls[k] = CnameQuery(net.domain)
    /\ evalOut.kind = "probeDomain" => ~evalOut.out.early

\* C10: the first request of the initial probe is the HTTPS one; the HTTP
\* request is issued at most once, after it, and only if the HTTPS request
\* failed; the recorded status, length and body are those of the one request
\* that was answered; when both requests fail the status is 0, the body is
\* empty and the evaluation goes on.
C10_HttpsThenHttpOnce ==
    EvalDone =>
        /\ Requests \in {<<>>, <<HttpsURL(net.domain)>>,
                         <<HttpsURL(net.domain), HttpURL(net.domain)>>}
        /\ Len(Requests) = 2 => ~net.https.ok
        /\ (Len(Requests) >= 1 /\ net.https.ok) => Recorded = From(net.https)
        /\ (Len(Requests) = 2 /\ net.http.ok) => Recorded = From(net.http)
        /\ (Len(Requests) = 2 /\ ~net.https.ok /\ ~net.http.ok) =>
              (Recorded = Nothing /\ WentOn)

\* probeDomain fell back to HTTP, which answered, and recorded its answer
C10_Witness ==
    /\ EvalDone
    /\ evalOut.kind = "probeDomain"
    /\ ~net.https.ok
    /\ net.http.ok
    /\ Len(Requests) = 2
    /\ evalOut.out.result.HTTPStatus = 200
    /\ evalOut.out.result.ContentLength = 204800

---------------------------------------------------------------------------
(* Properties of probeDomain (SpecPipeline). *)

\* the call has passed the stage of position pc
Past(pc) ==
    LET rank == [p \in {"cname", "takeover", "s3", "files", "redirects",
                        "returned", "fatal"} |->
                    CASE p = "cname" -> 1 [] p = "takeover" -> 2 [] p = "s3" -> 3
                      [] p = "files" -> 4 [] p = "redirects" -> 5
                      [] p = "returned" -> 6 [] OTHER -> 0]
    IN  prog = "probeDomain" /\ evalOut # NoEval /\ rank[evalOut.pc] > rank[pc]

TakeoverFinding(provider) == "Subdomain Takeover (" \o provider \o ")"

IsTakeoverFinding(v) == Len(v) >= 18 /\ SubSeq(v, 1, 18) = "Subdomain Takeover"

BucketTags == {"PUBLIC-S3", "PRIVATE-S3", "UNCLAIMED-S3"}

BucketFindings == {"Public S3 Bucket", "Unclaimed S3 Bucket"}

\* the initial probe failed and the host has no alias
Unreachable ==
    /\ ~net.https.ok
    /\ ~net.http.ok
    /\ LET records == LookupCNAME(net.dns, net.domain)
       IN  records.err \/ records.name = ""

AllLaterURLs ==
    {FileURL(net.domain, i) : i \in DOMAIN sensitiveFilePaths}
        \cup {TestURL(net.domain, i) : i \in DOMAIN openRedirectPatterns}

\* C11: on a host whose initial probe failed and that has no alias,
\* probeDomain is not killed and returns a result with status 0, no
\* takeover and no bucket finding or tag; a later request that fails is
\* skipped and the next one is made: unless a finding stops a stage, every
\* file path and every redirect template has been requested at the return.
C11_UnreachableHostEvaluated ==
    (prog = "probeDomain" /\ evalOut # NoEval /\ Unreachable) =>
        /\ evalOut.pc # "fatal"
        /\ evalOut.result.HTTPStatus = 0
        /\ evalOut.body = ""
        /\ ~evalOut.result.IsTakeover
        /\ ~evalOut.result.S3Public
        /\ ~evalOut.result.S3Private
        /\ \A k \in DOMAIN evalOut.result.Tags :
              evalOut.result.Tags[k] \notin BucketTags \cup {"TAKEOVER-CANDIDATE"}
        /\ \A k \in DOMAIN evalOut.result.Vulnerabilities :
              /\ evalOut.result.Vulnerabilities[k] \notin BucketFindings
              /\ ~IsTakeoverFinding(evalOut.result.Vulnerabilities[k])
        /\ (evalOut.pc = "returned" /\ evalOut.result.Vulnerabilities = <<>>) =>
              \A u \in AllLaterURLs : \E k \in DOMAIN evalOut.calls : evalOut.calls[k] = u

\* the unreachable host was evaluated to the end: every later request was
\* made and failed
C11_Witness ==
    /\ At("returned")
    /\ Unreachable
    /\ net.web = NoWeb
    /\ Len(evalOut.calls) = 3 + Len(sensitiveFilePaths) + Len(openRedirectPatterns)
    /\ evalOut.result.Tags = <<>>

\* provider p has an alias pattern that occurs in some hop of the chain and
\* a fingerprint that occurs in the body of the response
ChainMatches(p) ==
    /\ evalOut.resp
    /\ \E h \in DOMAIN evalOut.chain : \E j \in DOMAIN takeoversignatures[p].cname :
          Contains(evalOut.chain[h], takeoversignatures[p].cname[j])
    /\ \E k \in DOMAIN takeoversignatures[p].matches :
          Contains(evalOut.body, takeoversignatures[p].matches[k])

\* C12: after the takeover stage, for every provider of which some hop of
\* the alias chain (the first or a later one) contains an alias pattern and
\* the body a fingerprint, the result has a takeover finding of that provider.
C12_TakeoverOnAnyHop ==
    Past("takeover") =>
        \A p \in DOMAIN takeoversignatures :
            ChainMatches(p) =>
                /\ evalOut.result.IsTakeover
                /\ Count(evalOut.result.Vulnerabilities,
                         TakeoverFinding(takeoversignatures[p].provider)) >= 1

\* C13: the result never has more than one takeover finding of one provider,
\* and an alias containing "herokuapp.com" with a body containing
\* "No such app" gives exactly one takeover finding of Heroku, tagged Heroku.
C13_OneTakeoverPerProvider ==
    Past("takeover") =>
        /\ \A p \in DOMAIN takeoversignatures :
              Count(evalOut.result.Vulnerabilities,
                    TakeoverFinding(takeoversignatures[p].provider)) <= 1
        /\ (/\ Contains(evalOut.result.CNAME, "herokuapp.com")
            /\ evalOut.resp
            /\ Contains(evalOut.body, "No such app")) =>
              /\ Count(evalOut.result.Vulnerabilities, TakeoverFinding("Heroku")) = 1
              /\ Count(evalOut.result.Tags, "Heroku") = 1

\* the alias matches both patterns of Heroku and the body two of its
\* fingerprints; the result has the one finding
C13_Witness ==
    /\ At("returned")
    /\ evalOut.result.CNAME = "app.herokuapp.com"
    /\ evalOut.body = "Heroku | No such app"
    /\ evalOut.result.Vulnerabilities = <<TakeoverFinding("Heroku")>>
    /\ evalOut.result.Tags = <<"TAKEOVER-CANDIDATE", "Heroku">>

\* the bucket outcomes of the result: its bucket tags, in order
BucketOutcomes ==
    SelectSeq(evalOut.result.Tags, LAMBDA t : t \in BucketTags)

\* C14: after the bucket stage, a body containing "<ListBucketResult" gives
\* exactly one "Public S3 Bucket" finding with the PUBLIC-S3 tag and neither
\* of the other two outcomes; every result has at most one of the three
\* bucket tags, and which one follows the precedence listing marker,
\* access-denied marker, bucket-not-found marker.
C14_BucketOutcomesExclusive ==
    Past("s3") =>
        /\ Len(BucketOutcomes) <= 1
        /\ Contains(evalOut.body, "<ListBucketResult") =>
              /\ BucketOutcomes = <<"PUBLIC-S3">>
              /\ Count(evalOut.result.Vulnerabilities, "Public S3 Bucket") = 1
              /\ Count(evalOut.result.Vulnerabilities, "Unclaimed S3 Bucket") = 0
              /\ evalOut.result.S3Public
              /\ ~evalOut.result.S3Private
        /\ (BucketOutcomes = <<"PRIVATE-S3">>) =>
              /\ ~Contains(evalOut.body, "<ListBucketResult")
              /\ Contains(evalOut.body, "AccessDenied")
        /\ (BucketOutcomes = <<"UNCLAIMED-S3">>) =>
              /\ ~Contains(evalOut.body, "<ListBucketResult")
              /\ ~Contains(evalOut.body, "AccessDenied")
              /\ Contains(evalOut.body, "NoSuchBucket")

\* a body with all three markers gave the public bucket alone
C14_Witness ==
    /\ At("returned")
    /\ Contains(evalOut.body, "<ListBucketResult")
    /\ Contains(evalOut.body, "AccessDenied")
    /\ Contains(evalOut.body, "NoSuchBucket")
    /\ evalOut.result.S3Public
    /\ BucketOutcomes = <<"PUBLIC-S3">>

\* C15: after the bucket stage, a body containing "AccessDenied" and not
\* "<ListBucketResult" gives exactly one private-bucket outcome and no
\* public-bucket finding, whatever the alias chain.
C15_PrivateBucketOnAccessDenied ==
    (/\ Past("s3")
     /\ evalOut.resp
     /\ Contains(evalOut.body, "AccessDenied")
     /\ ~Contains(evalOut.body, "<ListBucketResult")) =>
        /\ evalOut.result.S3Private
        /\ Count(evalOut.result.Tags, "PRIVATE-S3") = 1
        /\ ~evalOut.result.S3Public
        /\ Count(evalOut.result.Vulnerabilities, "Public S3 Bucket") = 0

\* the per-host finding budget
FindingBudget == 5

\* C16: at no point of probeDomain does the result hold more findings than
\* the budget of 5.
C16_FindingsWithinBudget ==
    (prog = "probeDomain" /\ evalOut # NoEval) =>
        Len(evalOut.result.Vulnerabilities) <= FindingBudget

\* the tag of each sensitive path, in table order: "EXPOSED-" and the
\* path's last '/'-separated segment in upper case
ExposedTags ==
    <<"EXPOSED-.ENV", "EXPOSED-.ENV", "EXPOSED-CONFIG", "EXPOSED-CONFIG.JSON",
      "EXPOSED-WP-CONFIG.PHP", "EXPOSED-ROBOTS.TXT", "EXPOSED-SITEMAP.XML",
      "EXPOSED-SECURITY.TXT", "EXPOSED-SERVER-STATUS", "EXPOSED-PHPINFO.PHP">>

\* the answer of the host to the GET of the i-th sensitive path
FilePage(i) ==
    Fetch(net, "https://" \o net.domain \o sensitiveFilePaths[i].path)

\* the i-th sensitive path answers 200 with a body (as read, capped) that
\* contains one of the path's fingerprints
FileExposed(i) ==
    /\ FilePage(i).ok
    /\ FilePage(i).status = 200
    /\ \E k \in DOMAIN sensitiveFilePaths[i].contentSigs :
          Contains(FilePage(i).body, sensitiveFilePaths[i].contentSigs[k])

\* a step that checks the path at the loop index
FileChecked ==
    /\ At("files")
    /\ evalOut' # evalOut
    /\ evalOut'.pc = "files"

SentinelURL(i) ==
    "https://" \o net.domain \o openRedirectPatterns[i].pathPattern \o "?"
        \o openRedirectPatterns[i].param \o "=https://evil.com"

\* the templates the host answers with a 3xx whose Location contains the
\* sentinel host
RedirectHits ==
    {i \in DOMAIN openRedirectPatterns :
        /\ Fetch(net, SentinelURL(i)).ok
        /\ Fetch(net, SentinelURL(i)).status \in 300..399
        /\ Contains(Fetch(net, SentinelURL(i)).location, "evil.com")}

FirstHit == CHOOSE i \in RedirectHits : \A j \in RedirectHits : i <= j

TemplatesRequested ==
    {i \in DOMAIN openRedirectPatterns :
        Count(evalOut.calls, SentinelURL(i)) > 0}

\* C18: a result has at most one "Open Redirect" finding; when OpenRedirect
\* is set, RedirectURL is the URL of the first template in table order that
\* the host answers with a 3xx whose Location contains evil.com, and no
\* template after it has been requested; a template that hits and has been
\* requested sets OpenRedirect.
C18_FirstRedirectHitOnly ==
    (prog = "probeDomain" /\ evalOut # NoEval) =>
        /\ Count(evalOut.result.Vulnerabilities, "Open Redirect") <= 1
        /\ evalOut.result.OpenRedirect =>
              /\ RedirectHits # {}
              /\ evalOut.result.RedirectURL = SentinelURL(FirstHit)
              /\ Count(evalOut.result.Vulnerabilities, "Open Redirect") = 1
              /\ Count(evalOut.result.Tags, "OPEN-REDIRECT") = 1
              /\ \A i \in TemplatesRequested : i <= FirstHit
        /\ (TemplatesRequested \cap RedirectHits # {}) =>
              evalOut.result.OpenRedirect
        /\ ~evalOut.result.OpenRedirect =>
              /\ evalOut.result.RedirectURL = ""
              /\ Count(evalOut.result.Vulnerabilities, "Open Redirect") = 0

\* the fifth template hit after four that did not (one of them a 200 with
\* the sentinel in Location, one a 302 to another place)
C18_Witness ==
    /\ At("returned")
    /\ evalOut.result.OpenRedirect
    /\ FirstHit = 5
    /\ TemplatesRequested = 1..5
    /\ Fetch(net, SentinelURL(1)).status = 200
    /\ Contains(Fetch(net, SentinelURL(1)).location, "evil.com")

---------------------------------------------------------------------------
(* Properties of analyzeSubdomain (SpecScore), scores in tenths            *)

Scored == prog = "analyzeSubdomain" /\ evalOut # NoEval

\* the exchange that answered: HTTPS, else plain HTTP, else none
Answered ==
    IF net.https.ok THEN net.https
    ELSE IF net.http.ok THEN net.http
    ELSE NoResponse

StatusPoints(st) ==
    CASE st \in 200..299 -> 10
      [] st \in 300..399 -> 5
      [] st = 403 -> 7
      [] st \in 400..499 /\ st # 403 -> 2
      [] st >= 500 -> 3
      [] OTHER -> 0

TLSPoints ==
    IF net.https.ok /\ net.https.cert = "valid" THEN 5
    ELSE IF net.https.ok /\ net.https.cert = "invalid" THEN 0 - 3
    ELSE 0

\* 1.0 for every provider tag of the result
ProviderPoints ==
    10 * Len(SelectSeq(evalOut.out.info.Tags,
                       LAMBDA t : \E p \in DOMAIN cloudCnamePatterns :
                                     t = cloudCnamePatterns[p].provider))

\* what the score holds beyond the base, the status, the certificate and
\* the providers
SizeBonus ==
    evalOut.out.info.Score
        - (10 + StatusPoints(Answered.status) + TLSPoints + ProviderPoints)

\* C19: the score of analyzeSubdomain is the base 1.0 plus the status
\* contribution (+1.0 for 2xx, +0.5 for 3xx, +0.7 for 403, +0.2 for another
\* 4xx, +0.3 from 500 on, nothing for 0 and 1xx) plus the certificate's
\* (+0.5 valid over HTTPS, -0.3 outside its validity window, nothing over
\* plain HTTP or without answer), plus 1.0 per provider tag and 0.2 with
\* the LARGE tag.
C19_StatusAndTLSContributions ==
    Scored =>
        /\ evalOut.out.info.HTTPStatus = Answered.status
        /\ evalOut.out.info.Score =
              10 + StatusPoints(Answered.status) + TLSPoints + ProviderPoints
                 + 2 * Count(evalOut.out.info.Tags, "LARGE")

\* a 403 over HTTPS with an expired certificate: 1.0 + 0.7 - 0.3
C19_Witness ==
    /\ Scored
    /\ net.https.ok
    /\ net.https.status = 403
    /\ net.https.cert = "invalid"
    /\ net.https.length = 0
    /\ net.dns = [n \in {} |-> DNSError]
    /\ evalOut.out.info.Score = 14

\* C20: the result has the LARGE tag and the 0.2 bonus exactly when the
\* content length of the answer is greater than 102400 bytes.
C20_LargeOver100KiB ==
    Scored =>
        /\ (Count(evalOut.out.info.Tags, "LARGE") = 1) <=> (Answered.length > 102400)
        /\ SizeBonus = IF Answered.length > 102400 THEN 2 ELSE 0

---------------------------------------------------------------------------
(* Properties of single evaluations on hosts whose aliases name several    *)
(* providers (SpecProbe, SpecPipeline)                                     *)

Analyzed == prog = "probe" /\ evalOut # NoEval /\ evalOut.kind = "analyzeSubdomain"

\* the alias chain analyzeSubdomain resolved, empty when the lookup failed
AnalyzedChain == evalOut.out.info.CNAMEs

\* some hop of the chain matches some pattern of the table
ChainNamesProvider ==
    \E p \in DOMAIN cloudCnamePatterns :
        \E k \in DOMAIN AnalyzedChain : MatchString(p, AnalyzedChain[k])

\* what the score holds beyond the base, the status, the certificate and
\* the size
ProviderBonus ==
    evalOut.out.info.Score
        - (10 + StatusPoints(Answered.status) + TLSPoints
              + 2 * Count(evalOut.out.info.Tags, "LARGE"))

\* C21: the provider bonus of a host is 1.0 when some hop of its alias chain
\* matches some pattern, however many match, and 0 otherwise.
C21_ProviderBonusOnce ==
    (Analyzed /\ ~evalOut.out.overflow) =>
        ProviderBonus = IF ChainNamesProvider THEN 10 ELSE 0

\* the results analyzeSubdomain may return on the same inputs
SameInputRuns == AnalyzeOutcomes(net.domain, net)

\* C22: every run of analyzeSubdomain on the same inputs gives the same
\* Score, whatever the order in which the provider table is iterated.
C22_ScoreDeterministic ==
    Analyzed => \A o \in SameInputRuns : o.info.Score = evalOut.out.info.Score

\* a chain that matches two patterns: two iteration orders, one score
C22_Witness ==
    /\ Analyzed
    /\ ~evalOut.out.overflow
    /\ Cardinality(MatchedPatterns(AnalyzedChain)) = 2
    /\ Cardinality(SameInputRuns) = 2

\* C23: every run of analyzeSubdomain on the same inputs reports the same
\* CloudProvider and the same sequence of tags.
C23_ProviderDeterministic ==
    Analyzed =>
        \A o \in SameInputRuns :
            /\ o.info.CloudProvider = evalOut.out.info.CloudProvider
            /\ o.info.Tags = evalOut.out.info.Tags

NoDuplicates(q) == \A i \in DOMAIN q : \A j \in DOMAIN q : q[i] = q[j] => i = j

\* C24: the Tags of a result hold no entry twice.
C24_TagsWithoutDuplicates ==
    /\ (prog = "probeDomain" /\ evalOut # NoEval) => NoDuplicates(evalOut.result.Tags)
    /\ Scored => NoDuplicates(evalOut.out.info.Tags)

---------------------------------------------------------------------------
(* Properties of runs on hosts that never answer (SpecSilent)              *)

\* C25: every network call is bounded by a timeout, so a run over hosts
\* whose DNS never answers still returns.
C25_SilentHostStillReturns ==
    <>(mainPc = "returned")

\* the primary or the fallback lookup of host h gives at least one address
HasAddress(h) ==
    \/ ~HostNet(h).lookupCtx.err /\ HostNet(h).lookupCtx.ips >= 1
    \/ ~HostNet(h).lookupPlain.err /\ HostNet(h).lookupPlain.ips >= 1

\* C26: ResolveSubdomains never aborts, and what it returns is, up to order,
\* the list of the input hosts that have an address by the primary or the
\* fallback lookup: each as often as the input names it (once for an input
\* without duplicates), and no host both of whose lookups gave nothing.
C26_ExactlyTheAliveHosts ==
    prog = "ResolveSubdomains" =>
        /\ mainPc # "fatal"
        /\ \A k \in DOMAIN results : HasAddress(results[k])
        /\ mainPc = "returned" =>
              /\ IsPermutation(ret, SelectSeq(subdomains, HasAddress))
              /\ NoDuplicates(subdomains) => NoDuplicates(ret)

\* a run over a host without address, one with an address by the primary
\* lookup and one by the fallback lookup returned the two that have one
C26_Witness ==
    /\ Returned("ResolveSubdomains")
    /\ subdomains = <<"dead.example.com", "good.example.com", "late.example.com">>
    /\ Len(ret) = 2
    /\ Count(ret, "good.example.com") = 1
    /\ Count(ret, "late.example.com") = 1

---------------------------------------------------------------------------
(* Properties of the command (SpecCommand)                                 *)

\* the run was asked to read a wordlist that cannot be opened
WordlistUnreadable ==
    /\ ~net.passiveOnly
    /\ net.wordlist.path # ""
    /\ ~net.wordlist.ok

Called(f) == Count(evalOut.calls, f) > 0

\* C27: a run whose wordlist cannot be opened is aborted with an error
\* before any resolution or probing is dispatched: it calls neither
\* ResolveSubdomains nor RunProbes nor AnalyzeSubdomains and does not end
\* with exit code 0.
C27_UnreadableWordlistAborts ==
    (prog = "Run" /\ evalOut # NoEval /\ Called("BruteForce") /\ WordlistUnreadable) =>
        /\ ~Called("ResolveSubdomains")
        /\ ~Called("RunProbes")
        /\ ~Called("AnalyzeSubdomains")
        /\ evalOut.exit # 0

\* C28: a run with --score and --probe that found a host with an address
\* and ended has both probed and analyzed the hosts that have one.
C28_ScoreAndProbeBothRun ==
    (/\ InRun("exited")
     /\ net.enableScoring
     /\ net.enableProbe
     /\ Len(evalOut.aliveSubdomains) > 0) =>
        /\ Called("RunProbes")
        /\ evalOut.probeResults = evalOut.aliveSubdomains
        /\ Called("AnalyzeSubdomains")
        /\ evalOut.results = evalOut.aliveSubdomains

---------------------------------------------------------------------------
(* Properties of the shared state of the pools (Spec)                      *)

Pooled == prog \in {"AnalyzeSubdomains", "ResolveSubdomains"}

\* the workers between mu.Lock() and mu.Unlock()
InCritical == {w \in Workers : wpc[w] = "append"}

\* what worker w is about to append
Appending(w) == IF prog = "AnalyzeSubdomains" THEN winfo[w][1] ELSE wjob[w]

\* the workers whose own state (position, host, result held) a step changes
Stepped ==
    {w \in Workers :
        \/ wpc'[w] # wpc[w]
        \/ wjob'[w] # wjob[w]
        \/ winfo'[w] # winfo[w]}

C30_ProgressCountMonotonic ==
    /\ [](prog = "ResolveSubdomains" =>
            /\ current <= processed
            /\ processed <= Len(subdomains)
            /\ (mainPc = "returned" \/ reporterPc = "exited") =>
                  /\ processed = Len(subdomains)
                  /\ wg = 0
                  /\ InProgress = 0
            /\ mainPc = "returned" => reporterPc = "exited")
    /\ [][prog = "ResolveSubdomains" =>
            /\ processed' >= processed
            /\ current' >= current
            /\ current' # current =>
                  UNCHANGED <<prog, subdomains, Concurrency, mainPc, sent, jobs,
                              jobsClosed, wg, wpc, wjob, winfo, mu, results,
                              processed, reporterPc, ret>>]_vars

\* the reporter read the count at 2 of 3 hosts and stopped after the third
C30_Witness ==
    /\ prog = "ResolveSubdomains"
    /\ reporterPc = "exited"
    /\ Len(subdomains) = 3
    /\ current = 2
    /\ processed = 3

---------------------------------------------------------------------------
(* Further properties of probeDomain (SpecPipeline)                        *)

\* the file stage or the redirect stage is reached and the budget is used up
BudgetReached ==
    /\ prog = "probeDomain"
    /\ evalOut # NoEval
    /\ evalOut.pc \in {"files", "redirects", "returned"}
    /\ Len(evalOut.result.Vulnerabilities) >= FindingBudget

\* C31: from the moment the result holds 5 findings, probeDomain makes no
\* further network call: no file and no redirect request is issued.
C31_NoRequestOnceBudgetReached ==
    [][BudgetReached => evalOut'.calls = evalOut.calls]_vars

\* the fifth finding came from the sixth path: the paths after it and the
\* redirect templates were never requested
C31_Witness ==
    /\ At("returned")
    /\ Len(evalOut.result.Vulnerabilities) = 5
    /\ Len(evalOut.result.ExposedFiles) = 5
    /\ Count(evalOut.calls, "https://" \o net.domain \o "/wp-config.php") = 1
    /\ Count(evalOut.calls, "https://" \o net.domain \o "/robots.txt") = 1
    /\ Count(evalOut.calls, "https://" \o net.domain \o "/sitemap.xml") = 0
    /\ TemplatesRequested = {}

\* C32: the request of every sensitive-file check for host h is for a URL of
\* h itself: "https://h/" followed by the path.
C32_FileChecksTargetTheHost ==
    [][FileChecked =>
          /\ Len(evalOut'.calls) = Len(evalOut.calls) + 1
          /\ HasPrefix(evalOut'.calls[Len(evalOut'.calls)],
                       "https://" \o net.domain \o "/")]_vars

\* the keys the model's listings hold, in listing order, as far as the code
\* may keep them
Evidence(listing) ==
    CASE Contains(listing, "<Key>k6</Key>") -> <<"k1", "k2", "k3", "k4", "k5">>
      [] Contains(listing, "<Key>b.txt</Key>") -> <<"a.txt", "b.txt">>
      [] OTHER -> <<>>

\* C33: right after the bucket stage, a body with the listing marker has
\* given the "Public S3 Bucket" finding and the PUBLIC-S3 tag, and the
\* evidence is the first 5 keys of the listing at most, in listing order;
\* for a body that is no complete listing the finding and the tag are there
\* and the evidence is empty.
C33_EvidenceAtMostFiveKeys ==
    (/\ At("files")
     /\ evalOut.i = 1
     /\ evalOut.resp
     /\ Contains(evalOut.body, "<ListBucketResult")) =>
        /\ evalOut.result.S3Public
        /\ Count(evalOut.result.Vulnerabilities, "Public S3 Bucket") = 1
        /\ Count(evalOut.result.Tags, "PUBLIC-S3") = 1
        /\ Len(evalOut.result.ExposedFiles) <= 5
        /\ evalOut.result.ExposedFiles = Evidence(evalOut.body)

\* a listing of six keys left five as evidence
C33_Witness ==
    /\ At("files")
    /\ evalOut.i = 1
    /\ Contains(evalOut.body, "<Key>k6</Key>")
    /\ evalOut.result.S3Public
    /\ evalOut.result.ExposedFiles = <<"k1", "k2", "k3", "k4", "k5">>

\* a body with the marker that is no listing: the finding without evidence
C33_UnparsedListingRecorded ==
    /\ At("files")
    /\ evalOut.i = 1
    /\ Contains(evalOut.body, "<ListBucketResult")
    /\ ~Contains(evalOut.body, "</ListBucketResult>")
    /\ evalOut.result.S3Public
    /\ evalOut.result.ExposedFiles = <<>>

---------------------------------------------------------------------------
(* Further properties of single lookups (SpecLookup)                       *)

EndsWithDot(n) == Len(n) >= 1 /\ SubSeq(n, Len(n), Len(n)) = "."

\* the hops are linked by the DNS: the first is the answer for the starting
\* name, each next one the answer for the hop before it
Linked(cnames) ==
    \A k \in DOMAIN cnames :
        cnames[k] = Target(net.dns, IF k = 1 THEN net.domain ELSE cnames[k - 1])

\* the chain stops where the DNS gives nothing more: at a hop whose lookup
\* fails or is empty, or that names itself
Complete(cnames) ==
    IF cnames = <<>> THEN ~HasRecord(net.dns, net.domain)
    ELSE LET last == cnames[Len(cnames)]
             asked == IF Len(cnames) = 1 THEN net.domain ELSE cnames[Len(cnames) - 1]
         IN  \/ last = asked
             \/ ~HasRecord(net.dns, last)
             \/ \E k \in 1..(Len(cnames) - 1) : cnames[k] = last
             \/ last = net.domain

\* the parts of C34 that concern a lookup that returns
ReturnedChainKept ==
    /\ evalOut.out.err <=> LookupCNAME(net.dns, net.domain).err
    /\ evalOut.out.err => evalOut.out.cnames = <<>>
    /\ \A k \in DOMAIN evalOut.out.cnames : ~EndsWithDot(evalOut.out.cnames[k])
    /\ Linked(evalOut.out.cnames)
    /\ Complete(evalOut.out.cnames)

\* C34: lookupCNAME returns for every DNS; it reports an error exactly when
\* the lookup of the starting name fails, and then the chain is empty;
\* otherwise the chain holds every hop found up to the hop whose lookup
\* failed or that repeats an earlier name, each without its root dot.
C34_ChainKeptOnLaterFailure ==
    LookupDone => (~evalOut.out.overflow /\ ReturnedChainKept)

---------------------------------------------------------------------------
(* Further properties of the command (SpecCommand)                         *)

\* the list handed to ResolveSubdomains and the candidates it was made from
Handed == evalOut.uniqueSubdomains

Discovered == evalOut.subdomains

HasUpperCase(n) ==
    \E k \in 1..Len(n) : \E u \in 1..26 : SubSeq(n, k, k) = SubSeq(UpperCase, u, u)

HasOuterBlank(n) ==
    Len(n) >= 1 /\ (SubSeq(n, 1, 1) = " " \/ SubSeq(n, Len(n), Len(n)) = " ")

\* the candidates of which entry n is the lower-cased trimmed form
Origins(n) == {k \in DOMAIN Discovered : ToLower(TrimSpace(Discovered[k])) = n}

First(S) == CHOOSE k \in S : \A m \in S : k <= m

\* C35: the list handed to ResolveSubdomains has no empty entry, no entry
\* twice, no upper-case letter and no blank at either end; every entry is
\* the lower-cased trimmed form of a discovered candidate, every candidate
\* that is not blank has its entry, and the entries are in the order of
\* their first occurrence among the candidates.
C35_CandidatesNormalised ==
    (prog = "Run" /\ evalOut # NoEval /\ evalOut.pc # "exited") =>
        /\ NoDuplicates(Handed)
        /\ \A i \in DOMAIN Handed :
              /\ Handed[i] # ""
              /\ ~HasUpperCase(Handed[i])
              /\ ~HasOuterBlank(Handed[i])
              /\ Origins(Handed[i]) # {}
        /\ \A k \in DOMAIN Discovered :
              ToLower(TrimSpace(Discovered[k])) # "" =>
                  Count(Handed, ToLower(TrimSpace(Discovered[k]))) = 1
        /\ \A i \in DOMAIN Handed : \A j \in DOMAIN Handed :
              i < j => First(Origins(Handed[i])) < First(Origins(Handed[j]))

\* candidates that differ in case and blanks, a blank one and one found by
\* two sources gave three hosts
C35_Witness ==
    /\ InRun("resolve")
    /\ Discovered = <<"www.example.com", " Mail.example.com ", "  ",
                      "WWW.example.com", "www.example.com", "API.example.com">>
    /\ Handed = <<"www.example.com", "mail.example.com", "api.example.com">>

-----------------------------------------------------------------------------
(* Further properties of the scheduler runs (Spec). *)

\* the per-host goroutines of RunProbes that hold a semaphore slot
Holding == {g \in Workers : wpc[g] \in {"probe", "send", "release"}}

\* lines 222-282: what the channels of RunProbes guarantee by themselves: the
\* results channel is closed by the closer alone and only when every host
\* has its goroutine and every goroutine is past wg.Done(); a goroutine about
\* to send finds room in the buffer; the semaphore holds one token for every
\* goroutine between its acquire and its release; the list returned has the
\* length of the input
ChannelDiscipline ==
    /\ chanClosed <=> closerPc = "exited"
    /\ closerPc \in {"close", "exited"} =>
          /\ sent = Len(subdomains)
          /\ \A g \in Workers : wpc[g] = "exited"
    /\ \A g \in Workers :
          wpc[g] = "send" => (~chanClosed /\ Len(resultsChan) < Len(subdomains))
    /\ semaphore = Cardinality(Holding)
    /\ mainPc = "returned" =>
          /\ semaphore = 0
          /\ resultsChan = <<>>
          /\ Len(ret) = Len(subdomains)

\* C36: in RunProbes with a budget of at least 1, under every interleaving,
\* nothing is sent on the results channel after its close, a sender never
\* waits for room, the channel is closed once and after every goroutine has
\* finished, every goroutine gives its semaphore slot back, and the
\* collecting loop ends with every result: the run is never killed, and when
\* the last goroutine has finished the collector holds or can still take one
\* result for every host.
C36_ResultsChannelDiscipline ==
    (prog = "RunProbes" /\ Concurrency >= 1) =>
        /\ ChannelDiscipline
        /\ mainPc # "fatal"
        /\ chanClosed => Len(results) + Len(resultsChan) = Len(subdomains)

-----------------------------------------------------------------------------
(* The wordlist expander (src/pkg/expander/expander.go). *)

\* lines 15-18
commonPrefixes ==
    <<"dev", "test", "staging", "stg", "prod", "api", "admin", "internal",
      "stage", "app", "portal", "beta", "qa", "lab", "labs", "sandbox">>

\* lines 20-23
commonSuffixes ==
    <<"2", "01", "02", "03", "1", "3", "-test", "-prod", "-dev", "-api",
      "-admin", "-internal", "-portal", "-app", "-v1", "-v2", "-sandbox">>

\* lines 25-27
joiners == <<".", "-", "_">>

\* strings.Split(s, sep) for a one-character sep
RECURSIVE Split(_, _)
Split(s, sep) ==
    LET at == {i \in 1..Len(s) : SubSeq(s, i, i) = sep}
    IN  IF at = {} THEN <<s>>
        ELSE LET first == CHOOSE i \in at : \A j \in at : i <= j
             IN  <<SubSeq(s, 1, first - 1)>>
                 \o Split(SubSeq(s, first + 1, Len(s)), sep)

\* strings.Join(parts, sep)
RECURSIVE Join(_, _)
Join(parts, sep) ==
    IF parts = <<>> THEN ""
    ELSE IF Len(parts) = 1 THEN parts[1]
    ELSE parts[1] \o sep \o Join(Tail(parts), sep)

\* the lists of a list of lists, one after the other
RECURSIVE Concat(_)
Concat(lists) ==
    IF lists = <<>> THEN <<>> ELSE Head(lists) \o Concat(Tail(lists))

Reverse(list) == [i \in 1..Len(list) |-> list[Len(list) + 1 - i]]

\* a map[string]bool whose values are all true: the set of its keys, and the
\* keys in the order of their insertion
EmptyMap == [has |-> {}, keys |-> <<>>]

\* m[k] = true
MapPut(m, k) ==
    IF k \in m.has THEN m
    ELSE [has |-> m.has \cup {k}, keys |-> Append(m.keys, k)]

RECURSIVE MapPutAll(_, _)
MapPutAll(m, list) ==
    IF list = <<>> THEN m ELSE MapPutAll(MapPut(m, Head(list)), Tail(list))

\* for k := range m: Go fixes no order; the model takes the order of
\* insertion and its reverse
RangeOrders(m) == {m.keys, Reverse(m.keys)}

\* lines 142-147: the labels of one name but its last two
PrefixParts(parts) == SubSeq(parts, 1, Len(parts) - 2)

\* lines 129-157
RECURSIVE extractPrefixesLoop(_, _)
extractPrefixesLoop(list, prefixMap) ==
    IF list = <<>> THEN prefixMap
    ELSE LET parts == Split(Head(list), ".")
         IN  IF Len(parts) <= 2
             THEN extractPrefixesLoop(Tail(list), prefixMap)
             ELSE extractPrefixesLoop(
                      Tail(list),
                      MapPutAll(prefixMap,
                                SelectSeq(PrefixParts(parts), LAMBDA p : p # "")))

extractPrefixes(list) == RangeOrders(extractPrefixesLoop(list, EmptyMap))

\* lines 179-203: the variations of one prefix
PermutationsOf(prefix, allPrefixes) ==
    <<prefix>>
    \o [i \in 1..3 |-> prefix \o SubSeq("123", i, i)]
    \o [k \in 1..Len(commonSuffixes) |-> prefix \o commonSuffixes[k]]
    \o Concat([k \in 1..Len(allPrefixes) |->
                  IF prefix = allPrefixes[k] THEN <<>>
                  ELSE [j \in 1..Len(joiners) |->
                           prefix \o joiners[j] \o allPrefixes[k]]])

\* lines 160-206: one list for every order in which the map of line 174 can
\* be walked
generatePermutations(prefixes) ==
    {Concat([k \in 1..Len(allPrefixes) |->
                PermutationsOf(allPrefixes[k], allPrefixes)]) :
        allPrefixes \in RangeOrders(MapPutAll(EmptyMap, prefixes \o commonPrefixes))}

\* lines 209-245: a file that cannot be opened gives the empty list
RECURSIVE CommonspeakLines(_)
CommonspeakLines(lines) ==
    IF lines = <<>> THEN <<>>
    ELSE LET word == TrimSpace(Head(lines))
         IN  (IF word # "" /\ ~HasPrefix(word, "#") THEN <<word>> ELSE <<>>)
             \o CommonspeakLines(Tail(lines))

importCommonspeak(file) ==
    IF ~file.ok THEN <<>> ELSE CommonspeakLines(file.lines)

\* lines 252-259
replacements(char) ==
    CASE char = "a" -> <<"4", "@">>
      [] char = "e" -> <<"3">>
      [] char = "i" -> <<"1", "!">>
      [] char = "o" -> <<"0">>
      [] char = "s" -> <<"5", "$">>
      [] char = "l" -> <<"1">>
      [] OTHER -> <<>>

\* lines 270-317: the typo variants of the label at position i
TwistPart(parts, i) ==
    LET part == parts[i]
        n == Len(part)
        With(newPart) == Join([parts EXCEPT ![i] = newPart], ".")
        substituted ==
            Concat([j \in 1..n |->
                [r \in 1..Len(replacements(SubSeq(part, j, j))) |->
                    With(SubSeq(part, 1, j - 1)
                         \o replacements(SubSeq(part, j, j))[r]
                         \o SubSeq(part, j + 1, n))]])
        added ==
            Concat([j \in 1..(n + 1) |->
                [c \in 1..4 |->
                    With(SubSeq(part, 1, j - 1) \o SubSeq("01-_", c, c)
                         \o SubSeq(part, j, n))]])
        omitted ==
            IF n > 3
            THEN [j \in 1..n |->
                     With(SubSeq(part, 1, j - 1) \o SubSeq(part, j + 1, n))]
            ELSE <<>>
        swapped ==
            [j \in 1..(n - 1) |->
                With(SubSeq(part, 1, j - 1) \o SubSeq(part, j + 1, j + 1)
                     \o SubSeq(part, j, j) \o SubSeq(part, j + 2, n))]
    IN  IF n < 3 THEN <<>>
        ELSE substituted \o added \o omitted \o swapped

\* lines 248-322
RECURSIVE generateDNSTwist(_)
generateDNSTwist(list) ==
    IF list = <<>> THEN <<>>
    ELSE LET parts == Split(Head(list), ".")
         IN  (IF Len(parts) < 2 THEN <<>>
              ELSE Concat([i \in 1..Len(parts) |-> TwistPart(parts, i)]))
             \o generateDNSTwist(Tail(list))

\* lines 64-67, 84-87, 105-108: one turn of the loop of a generator
AppendIfNew(st, entry) ==
    IF entry \in st.uniqueMap.has THEN st
    ELSE [st EXCEPT !.uniqueMap = MapPut(@, entry),
                    !.expandedList = Append(@, entry)]

\* lines 63-68, 83-88, 104-109: the loop of a generator under the mutex, on
\* the entries lo..hi of its list, in their order. The range is halved and
\* st is read before the next turn, so that a list of a thousand entries is
\* walked without nesting a thousand evaluations.
RECURSIVE AppendNew(_, _, _, _)
AppendNew(list, lo, hi, st) ==
    IF st.mu < 0 \/ lo > hi THEN st
    ELSE IF lo = hi THEN AppendIfNew(st, list[lo])
    ELSE AppendNew(list, (lo + hi) \div 2 + 1, hi,
                   AppendNew(list, lo, (lo + hi) \div 2, st))

\* the three generator goroutines
Generators == {"permutations", "commonspeak", "dnstwist"}

\* the Commonspeak files of the runs
CommonspeakFiles ==
    {[path |-> "", ok |-> FALSE, lines |-> <<>>],
     [path |-> "missing.txt", ok |-> FALSE, lines |-> <<>>],
     [path |-> "subdomains.txt", ok |-> TRUE,
      lines |-> <<"mail", " api ", "# top", "", "mail", "w0ww.example.com">>]}

\* the options of the runs
ExpandConfigs ==
    [PassiveSubdomains : {<<>>,
                          <<"www.example.com">>,
                          <<"api", "dev.mail.example.com">>},
     Commonspeak       : CommonspeakFiles,
     UseDNSTwist       : BOOLEAN]

InitExpand ==
    /\ InitCall("ExpandWordlist")
    /\ net \in ExpandConfigs

\* the locals of ExpandWordlist (lines 40-46) and the position of each
\* goroutine
ExpandLocals ==
    [kind |-> "expand", pc |-> "permutations",
     expandedList |-> <<>>, uniqueMap |-> EmptyMap, mu |-> 0, wg |-> 0,
     prefixes |-> <<>>,
     gpc |-> [g \in Generators |-> "none"],
     glist |-> [g \in Generators |-> <<>>]]

InExpand(pc) == prog = "ExpandWordlist" /\ evalOut # NoEval /\ evalOut.pc = pc

\* lines 40-59: the prefixes, the passive subdomains as keys, and the
\* permutations goroutine
EW_Start ==
    /\ prog = "ExpandWordlist"
    /\ evalOut = NoEval
    /\ \E prefixes \in extractPrefixes(net.PassiveSubdomains) :
           evalOut' = [ExpandLocals EXCEPT
                          !.pc = "commonspeak",
                          !.prefixes = prefixes,
                          !.uniqueMap = MapPutAll(@, net.PassiveSubdomains),
                          !.wg = @ + 1,
                          !.gpc["permutations"] = "generate"]
    /\ UNCHANGED <<schedVars, net>>

\* lines 77-95
EW_Commonspeak ==
    /\ InExpand("commonspeak")
    /\ IF net.Commonspeak.path # ""
       THEN evalOut' = [evalOut EXCEPT !.pc = "dnstwist",
                                       !.wg = @ + 1,
                                       !.gpc["commonspeak"] = "generate"]
       ELSE evalOut' = [evalOut EXCEPT !.pc = "dnstwist"]
    /\ UNCHANGED <<schedVars, net>>

\* lines 98-116
EW_DNSTwist ==
    /\ InExpand("dnstwist")
    /\ IF net.UseDNSTwist
       THEN evalOut' = [evalOut EXCEPT !.pc = "wait",
                                       !.wg = @ + 1,
                                       !.gpc["dnstwist"] = "generate"]
       ELSE evalOut' = [evalOut EXCEPT !.pc = "wait"]
    /\ UNCHANGED <<schedVars, net>>

\* line 118: wg.Wait()
EW_Wait ==
    /\ InExpand("wait")
    /\ evalOut.wg = 0
    /\ evalOut' = [evalOut EXCEPT !.pc = "collect"]
    /\ UNCHANGED <<schedVars, net>>

\* lines 121-125: every key of uniqueMap is appended, and the list returned
EW_Return ==
    /\ InExpand("collect")
    /\ \E keys \in RangeOrders(evalOut.uniqueMap) :
           evalOut' = [evalOut EXCEPT !.pc = "returned",
                                      !.expandedList = @ \o keys]
    /\ UNCHANGED <<schedVars, net>>

GeneratorAt(g, pc) ==
    /\ prog = "ExpandWordlist"
    /\ evalOut # NoEval
    /\ evalOut.gpc[g] = pc

\* lines 61, 81, 102: the list of the generator
EW_Generate(g) ==
    /\ GeneratorAt(g, "generate")
    /\ \E list \in CASE g = "permutations" -> generatePermutations(evalOut.prefixes)
                     [] g = "commonspeak" -> {importCommonspeak(net.Commonspeak)}
                     [] g = "dnstwist" -> {generateDNSTwist(net.PassiveSubdomains)} :
           evalOut' = [evalOut EXCEPT !.gpc[g] = "lock", !.glist[g] = list]
    /\ UNCHANGED <<schedVars, net>>

\* lines 62, 82, 103: mu.Lock()
EW_Lock(g) ==
    /\ GeneratorAt(g, "lock")
    /\ evalOut.mu = 0
    /\ evalOut' = [evalOut EXCEPT !.mu = 1, !.gpc[g] = "append"]
    /\ UNCHANGED <<schedVars, net>>

\* lines 63-68, 83-88, 104-109
EW_Append(g) ==
    /\ GeneratorAt(g, "append")
    /\ evalOut' = [AppendNew(evalOut.glist[g], 1, Len(evalOut.glist[g]), evalOut) EXCEPT
                      !.gpc[g] = "unlock"]
    /\ UNCHANGED <<schedVars, net>>

\* lines 69, 89, 110: mu.Unlock()
EW_Unlock(g) ==
    /\ GeneratorAt(g, "unlock")
    /\ evalOut' = [evalOut EXCEPT !.mu = 0, !.gpc[g] = "done"]
    /\ UNCHANGED <<schedVars, net>>

\* lines 60, 80, 101: the deferred wg.Done()
EW_Done(g) ==
    /\ GeneratorAt(g, "done")
    /\ evalOut' = [evalOut EXCEPT !.wg = @ - 1, !.gpc[g] = "exited"]
    /\ UNCHANGED <<schedVars, net>>

EW_Main == EW_Start \/ EW_Commonspeak \/ EW_DNSTwist \/ EW_Wait \/ EW_Return

EW_Generator ==
    \E g \in Generators :
        \/ EW_Generate(g)
        \/ EW_Lock(g)
        \/ EW_Append(g)
        \/ EW_Unlock(g)
        \/ EW_Done(g)

ExpandWordlist == EW_Main \/ EW_Generator

SpecExpand == InitExpand /\ [][ExpandWordlist]_vars

-----------------------------------------------------------------------------
(* Properties of the wordlist expander (SpecExpand). *)

Entries(list) == {list[i] : i \in DOMAIN list}

\* what the options make the generators produce, in whatever order
GeneratedEntries ==
    UNION {UNION {Entries(perms) : perms \in generatePermutations(prefixes)} :
              prefixes \in extractPrefixes(net.PassiveSubdomains)}
    \cup (IF net.Commonspeak.path # ""
          THEN Entries(importCommonspeak(net.Commonspeak)) ELSE {})
    \cup (IF net.UseDNSTwist
          THEN Entries(generateDNSTwist(net.PassiveSubdomains)) ELSE {})

\* the list returned holds the passive subdomains and the generated entries
\* and nothing else, whatever the interleaving of the goroutines
ExpandedSetDetermined ==
    InExpand("returned") =>
        Entries(evalOut.expandedList)
            = Entries(net.PassiveSubdomains) \cup GeneratedEntries

\* C37: the list returned by ExpandWordlist has no duplicates and holds
\* every passive subdomain, permutation, Commonspeak entry and typo variant
\* exactly once, and its set of entries is the same under every interleaving
\* of the generator goroutines.
C37_EveryEntryExactlyOnce ==
    InExpand("returned") =>
        /\ Entries(evalOut.expandedList)
               = Entries(net.PassiveSubdomains) \cup GeneratedEntries
        /\ Cardinality(Entries(evalOut.expandedList)) = Len(evalOut.expandedList)

-----------------------------------------------------------------------------
(* Further properties of probeDomain (SpecPipeline). *)

Tagged(result, tag) == \E i \in DOMAIN result.Tags : result.Tags[i] = tag

\* the stage that writes a finding: takeover (line 360), bucket (lines 380,
\* 404), exposed file (line 441), open redirect (line 485)
StageOf(finding) ==
    IF HasPrefix(finding, "Subdomain Takeover (") THEN 1
    ELSE IF finding \in {"Public S3 Bucket", "Unclaimed S3 Bucket"} THEN 2
    ELSE IF HasPrefix(finding, "Exposed ") THEN 3
    ELSE IF finding = "Open Redirect" THEN 4
    ELSE 0

\* C38: in every result returned by probeDomain, IsTakeover holds iff the
\* tag TAKEOVER-CANDIDATE is present, S3Public iff PUBLIC-S3, S3Private iff
\* PRIVATE-S3, OpenRedirect iff OPEN-REDIRECT iff RedirectURL is not empty;
\* S3Public and S3Private are not both true; and Vulnerabilities lists the
\* findings in the order of the stages: takeover, bucket, exposed files,
\* open redirect.
C38_FlagsAgreeWithTags ==
    At("returned") =>
        LET r == evalOut.result
        IN  /\ r.IsTakeover <=> Tagged(r, "TAKEOVER-CANDIDATE")
            /\ r.S3Public <=> Tagged(r, "PUBLIC-S3")
            /\ r.S3Private <=> Tagged(r, "PRIVATE-S3")
            /\ r.OpenRedirect <=> Tagged(r, "OPEN-REDIRECT")
            /\ r.OpenRedirect <=> r.RedirectURL # ""
            /\ ~(r.S3Public /\ r.S3Private)
            /\ \A i \in DOMAIN r.Vulnerabilities :
                  /\ StageOf(r.Vulnerabilities[i]) \in 1..4
                  /\ \A j \in DOMAIN r.Vulnerabilities :
                        i < j => StageOf(r.Vulnerabilities[i])
                                     <= StageOf(r.Vulnerabilities[j])

\* a result with a finding of each of the four stages
C38_Witness ==
    /\ At("returned")
    /\ evalOut.result.IsTakeover
    /\ evalOut.result.S3Public
    /\ evalOut.result.OpenRedirect
    /\ evalOut.result.RedirectURL = TestURL(net.domain, FirstHit)
    /\ {StageOf(evalOut.result.Vulnerabilities[i]) :
           i \in DOMAIN evalOut.result.Vulnerabilities} = 1..4

\* a result of a private bucket: the flag and the tag, and no finding
C38_PrivateBucketTagged ==
    /\ At("returned")
    /\ evalOut.result.S3Private
    /\ Tagged(evalOut.result, "PRIVATE-S3")

-----------------------------------------------------------------------------
(* Further properties of analyzeSubdomain (SpecScore), scores in tenths. *)

\* the score of a host that answers nothing, for the providers of the result
UnreachableScore == 10 + ProviderPoints

\* the result of a host without answer: status 0, the NO-HTTP tag, and the
\* base score plus the providers'; the tag goes with status 0 and with
\* nothing else
UnreachableHostScored ==
    Scored =>
        /\ Count(evalOut.out.info.Tags, "NO-HTTP") > 0
              <=> evalOut.out.info.HTTPStatus = 0
        /\ ~Answered.ok =>
              /\ evalOut.out.info.HTTPStatus = 0
              /\ evalOut.out.info.Score = UnreachableScore

\* C39: a host that answered over HTTPS or HTTP never scores lower than a
\* host without answer that matches the same providers: the host without
\* answer has status 0, the NO-HTTP tag (carried iff the status is 0) and
\* the score 1.0 plus the provider bonus, and the score of a host that
\* answered is at least that.
C39_ReachableNeverBelowUnreachable ==
    Scored =>
        /\ Count(evalOut.out.info.Tags, "NO-HTTP") > 0
              <=> evalOut.out.info.HTTPStatus = 0
        /\ ~Answered.ok => evalOut.out.info.Score = UnreachableScore
        /\ Answered.ok => evalOut.out.info.Score >= UnreachableScore


=============================================================================
